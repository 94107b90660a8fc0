------------------------------- MODULE TokenForms -------------------------------
(***************************************************************************)
(* Changing a panel token or a DynDNS token in its form                    *)
(* (PanelTokenFormModal, DyndnsTokenModal) and by the switch in its row,   *)
(* while another session of the user changes it too.  The form sends the   *)
(* fields that differ from the entry it was opened with.  A field is       *)
(* TRUE or FALSE: "scope" is TRUE when the token is limited to zones.      *)
(***************************************************************************)
EXTENDS Naturals, FiniteSets

CONSTANTS Plain,        \* the fields nothing else depends on: name, lifetime, host names, ...
          TokenOthers   \* bound: changes by other sessions

ASSUME TokenFormsAssumption == TokenOthers \in Nat

FieldsOf(k) == Plain \cup IF k = "panel" THEN {"scope", "admin", "active"} ELSE {"active"}

VARIABLES
    kind,     \* "panel" or "dyndns"
    user,     \* who uses the panel: an administrator, with zones of their own
    token,    \* the token on the server
    revoked,  \* its secret was revoked (DynDNS)
    entry,    \* what the card lists
    edit,     \* the form: the entry it started from, its values, the fields touched
    change,   \* the request on the way: its fields, and what the form had touched
    tokenOthers    \* changes by other sessions so far

formVars == <<kind, user, token, revoked, entry, edit, change, tokenOthers>>

NoEdit == [open |-> FALSE, base |-> <<>>, values |-> <<>>, zones |-> FALSE, touched |-> {}]
NoChange == [at |-> "none", body |-> <<>>, touched |-> {}]
Values(k) == [FieldsOf(k) -> BOOLEAN]
ListedAs(t, r) == [values |-> t, revoked |-> r]

TokenFormsTypeOK ==
    /\ kind \in {"panel", "dyndns"} /\ revoked \in BOOLEAN
    /\ user \in [admin : BOOLEAN, zones : BOOLEAN]
    /\ token \in Values(kind)
    /\ entry.values \in Values(kind) /\ entry.revoked \in BOOLEAN
    /\ edit.open => edit.base.values \in Values(kind) /\ edit.values \in Values(kind)
    /\ edit.touched \subseteq FieldsOf(kind) /\ change.touched \subseteq FieldsOf(kind)
    /\ change.at \in {"none", "form", "row", "saved", "refused"}
    /\ DOMAIN change.body \subseteq FieldsOf(kind)
    /\ tokenOthers \in 0..TokenOthers

\* What the server allows: no admin grant on a token that is limited to zones,
\* and no active token with a revoked secret.
Sound(t, r) == ~(kind = "panel" /\ t["admin"] /\ t["scope"]) /\ ~(r /\ t["active"])

TokenFormsInit ==
    /\ kind \in {"panel", "dyndns"} /\ revoked = FALSE
    /\ user \in [admin : BOOLEAN, zones : BOOLEAN]
    /\ token \in {t \in Values(kind) : Sound(t, FALSE) /\ \A f \in Plain : t[f]}
    /\ entry = ListedAs(token, FALSE)
    /\ edit = NoEdit /\ change = NoChange /\ tokenOthers = 0

-----------------------------------------------------------------------------
\* The form.

OpenEdit ==
    /\ ~edit.open /\ change.at = "none"
    /\ edit' = [open |-> TRUE, base |-> entry, values |-> entry.values, touched |-> {},
              zones |-> kind = "panel" /\ entry.values["scope"]]
    /\ UNCHANGED <<kind, user, token, revoked, entry, change, tokenOthers>>

\* The DynDNS form switches a token with a revoked secret off, never on; the
\* box of the admin grant is there for administrators, without zones.
Offered(f, v) ==
    CASE f = "admin"  -> user.admin /\ ~edit.values["scope"]
      [] f = "active" -> kind = "dyndns" /\ (v => ~edit.base.revoked)
      [] OTHER -> TRUE

SetField(f, v) ==
    /\ edit.open /\ change.at = "none" /\ f # "scope" /\ v # edit.values[f] /\ Offered(f, v)
    /\ edit' = [edit EXCEPT !.values[f] = v, !.touched = @ \cup {f}]
    /\ UNCHANGED <<kind, user, token, revoked, entry, change, tokenOthers>>

\* Without zones of their own a user cannot limit the token to some.
ScopeOffered(v) == v => user.admin \/ user.zones

\* setScopeMode: limiting the token to zones takes the admin grant away.
SetScopeMode(v) ==
    /\ edit.open /\ change.at = "none" /\ kind = "panel" /\ v # edit.values["scope"]
    /\ ScopeOffered(v)
    /\ edit' = [edit EXCEPT !.values = [edit.values EXCEPT !["scope"] = v, !["admin"] = @ /\ ~v],
                            !.touched = @ \cup {"scope"} \cup (IF v THEN {"admin"} ELSE {})]
    /\ UNCHANGED <<kind, user, token, revoked, entry, change, tokenOthers>>

\* The boxes of the zones: some are ticked, or none.
ChooseZones(some) ==
    /\ edit.open /\ change.at = "none" /\ kind = "panel" /\ edit.values["scope"]
    /\ some # edit.zones
    /\ edit' = [edit EXCEPT !.zones = some, !.touched = @ \cup {"scope"}]
    /\ UNCHANGED <<kind, user, token, revoked, entry, change, tokenOthers>>

CloseEdit ==
    /\ edit.open /\ change.at = "none"
    /\ edit' = NoEdit
    /\ UNCHANGED <<kind, user, token, revoked, entry, change, tokenOthers>>

\* buildUpdatePayload, and its like for DynDNS: the fields that differ.
\* (Mutant: everything the form holds is sent.)
BuildUpdatePayload_all(base, values) == values
BuildUpdatePayload(base, values) ==
    [f \in {g \in DOMAIN values : values[g] # base[g]} |-> values[f]]

\* validateForm: at least one zone.
ValidForm == kind = "panel" /\ edit.values["scope"] => edit.zones

\* Without a difference the form closes and nothing is sent.
SubmitEdit ==
    LET body == BuildUpdatePayload(edit.base.values, edit.values) IN
    /\ edit.open /\ change.at = "none" /\ ValidForm
    /\ IF DOMAIN body = {}
       THEN edit' = NoEdit /\ UNCHANGED change
       ELSE /\ change' = [at |-> "form", body |-> body, touched |-> edit.touched]
            /\ UNCHANGED edit
    /\ UNCHANGED <<kind, user, token, revoked, entry, tokenOthers>>

\* Pause and resume, activate and deactivate: the opposite of what is listed.
CanToggleActive == entry.values["active"] \/ ~entry.revoked
ToggleActive ==
    /\ ~edit.open /\ change.at = "none" /\ CanToggleActive
    /\ change' = [at |-> "row", touched |-> {"active"},
                  body |-> [f \in {"active"} |-> ~entry.values["active"]]]
    /\ UNCHANGED <<kind, user, token, revoked, entry, edit, tokenOthers>>

-----------------------------------------------------------------------------
\* The server.

MergedToken(body) == [f \in FieldsOf(kind) |-> IF f \in DOMAIN body THEN body[f] ELSE token[f]]
Sets(body, f) == f \in DOMAIN body /\ body[f]

\* The admin grant is checked on what the token would become, the revoked
\* secret on what is asked for.
PanelAccepts(body) ==
    ~(Sets(body, "admin") /\ ~user.admin) /\ ~(MergedToken(body)["admin"] /\ MergedToken(body)["scope"])
DyndnsAccepts(body) == ~(Sets(body, "active") /\ revoked)
Accepts(body) == IF kind = "panel" THEN PanelAccepts(body) ELSE DyndnsAccepts(body)

ServeEdit ==
    /\ change.at \in {"form", "row"}
    /\ token' = IF Accepts(change.body) THEN MergedToken(change.body) ELSE token
    /\ change' = [change EXCEPT !.at = IF Accepts(change.body) THEN "saved" ELSE "refused"]
    /\ UNCHANGED <<kind, user, revoked, entry, edit, tokenOthers>>

\* Saved: the form closes and the list is loaded.  Refused, or the answer was
\* lost: the form stays with its error and with the entry it started from.
EditAnswered(lost) ==
    /\ change.at \in {"saved", "refused"}
    /\ edit' = IF change.at = "saved" /\ ~lost THEN NoEdit ELSE edit
    /\ entry' = IF change.at = "saved" /\ ~lost THEN ListedAs(token, revoked) ELSE entry
    /\ change' = NoChange
    /\ UNCHANGED <<kind, user, token, revoked, tokenOthers>>

\* Another session changes one field by the same rules; the access of the user
\* is revoked; the token gets a new secret.
OtherChanges(f) ==
    LET body == [g \in {f} |-> ~token[f]] IN
    /\ tokenOthers < TokenOthers /\ f \in FieldsOf(kind) /\ Accepts(body)
    /\ token' = MergedToken(body) /\ tokenOthers' = tokenOthers + 1
    /\ UNCHANGED <<kind, user, revoked, entry, edit, change>>

RevokeSecret ==
    /\ tokenOthers < TokenOthers /\ kind = "dyndns" /\ ~revoked
    /\ revoked' = TRUE /\ token' = [token EXCEPT !["active"] = FALSE] /\ tokenOthers' = tokenOthers + 1
    /\ UNCHANGED <<kind, user, entry, edit, change>>

RotateSecret ==
    /\ tokenOthers < TokenOthers /\ revoked
    /\ revoked' = FALSE /\ tokenOthers' = tokenOthers + 1
    /\ UNCHANGED <<kind, user, token, entry, edit, change>>

TokenFormsNext ==
    \/ OpenEdit \/ CloseEdit \/ SubmitEdit \/ ToggleActive \/ ServeEdit \/ RevokeSecret \/ RotateSecret
    \/ \E v \in BOOLEAN : EditAnswered(v) \/ SetScopeMode(v) \/ ChooseZones(v)
    \/ \E f \in FieldsOf(kind) : OtherChanges(f) \/ \E v \in BOOLEAN : SetField(f, v)

TokenFormsSpec == TokenFormsInit /\ [][TokenFormsNext]_formVars

-----------------------------------------------------------------------------
\* However old the list is the form was opened from: its save changes no field
\* the user left alone, so what another session changed meanwhile stays.
OnlyTouchedFieldsChange ==
    change.at \in {"form", "row"} /\ change'.at # change.at =>
        \A f \in FieldsOf(kind) : token'[f] # token[f] => f \in change.touched

\* No order of partial changes, each of them fine for itself, leads to an admin
\* grant on a token that is limited to zones, or to an active token whose secret
\* is revoked.
TokenIsSound == Sound(token, revoked)

\* A step changes what was meant, and leaves the token sound.
TokenChangesAreSound == [][OnlyTouchedFieldsChange /\ TokenIsSound']_formVars

=============================================================================
