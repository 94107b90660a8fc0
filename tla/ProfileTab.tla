------------------------------ MODULE ProfileTab ------------------------------
(***************************************************************************)
(* The profile tab of the settings (profile.tab.jsx) inside its shell      *)
(* (SettingsPage.jsx): a form filled by three requests that answer in any  *)
(* order or fail, and a save in two steps, the own profile and then, for   *)
(* an administrator, the settings of the application.  The form is saved   *)
(* as a whole, so what was never loaded must not be in what is saved.      *)
(***************************************************************************)
EXTENDS FiniteSets

VARIABLES
    db,      \* the stored fields
    role,    \* of the signed-in user
    loaded,  \* the three requests: getMe, getAppInfo, getAdminInfo
    form,    \* profileForm
    typed,   \* fields the user has filled or emptied (observer)
    save,    \* handleSaveProfile
    banner   \* the message of the page

tabVars == <<db, role, loaded, form, typed, save, banner>>

\* own: the optional fields of the profile; title: name, texts and switches
\* of the application; base: its base URL, known to administrators alone.
AppFields == {"title", "base"}
Fields == {"own"} \cup AppFields
Values == {"stored", "typed", "theirs", "empty"}
Sources == {"profile", "app", "admin"}

TabTypeOK ==
    /\ db \in [Fields -> Values] /\ form \in [Fields -> Values]
    /\ role \in {"admin", "user"}
    /\ loaded \in [Sources -> {"no", "asked", "yes", "failed"}]
    /\ typed \subseteq Fields
    /\ save \in {"idle", "profile", "app"}
    /\ banner \in {"none", "ok", "error", "half"}

TabInit ==
    /\ db = [f \in Fields |-> "stored"]
    /\ role \in {"admin", "user"}
    /\ loaded = [s \in Sources |-> IF s = "profile" THEN "asked" ELSE "no"]
    /\ form = [f \in Fields |-> "empty"]
    /\ typed = {}
    /\ save = "idle"
    /\ banner = "none"

-----------------------------------------------------------------------------
\* Loading.

\* SettingsPage's getMe: with the profile the tab asks for the application's
\* settings, and an administrator's page for what only they may see.
ProfileArrives ==
    /\ loaded["profile"] = "asked"
    /\ loaded' = [loaded EXCEPT !["profile"] = "yes", !["app"] = "asked",
                    !["admin"] = IF role = "admin" THEN "asked" ELSE "no"]
    /\ UNCHANGED <<db, role, form, typed, save, banner>>

LoadFails(s) ==
    /\ loaded[s] = "asked"
    /\ loaded' = [loaded EXCEPT ![s] = "failed"]
    /\ form' = IF s = "app" THEN [form EXCEPT !["own"] = "stored"] ELSE form
    /\ banner' = IF s = "profile" THEN "error" ELSE banner
    /\ UNCHANGED <<db, role, typed, save>>

\* fillProfile and the public settings; what getAdminInfo brought stays.
AppArrives ==
    /\ loaded["app"] = "asked"
    /\ loaded' = [loaded EXCEPT !["app"] = "yes"]
    /\ form' = [form EXCEPT !["own"] = "stored", !["title"] = db["title"]]
    /\ UNCHANGED <<db, role, typed, save, banner>>

AdminArrives ==
    /\ loaded["admin"] = "asked"
    /\ loaded' = [loaded EXCEPT !["admin"] = "yes"]
    /\ form' = [form EXCEPT !["base"] = db["base"]]
    /\ UNCHANGED <<db, role, typed, save, banner>>

-----------------------------------------------------------------------------
\* Editing and saving.

FormReady == loaded["profile"] = "failed" \/ loaded["app"] \in {"yes", "failed"}

\* appFieldsDisabled and baseUrlLoaded.
Enabled(f) ==
    /\ FormReady
    /\ f \in AppFields => role = "admin" /\ loaded["profile"] = "yes"
                          /\ loaded["app"] = "yes"
    /\ f = "base" => loaded["admin"] = "yes"

Type(f, v) ==
    /\ Enabled(f)
    /\ form' = [form EXCEPT ![f] = v]
    /\ typed' = typed \cup {f}
    /\ UNCHANGED <<db, role, loaded, save, banner>>

TypeOwn == \E v \in {"typed", "empty"} : Type("own", v)
TypeApp == \E f \in AppFields, v \in {"typed", "empty"} : Type(f, v)

\* First the profile.  Nothing in the page prevents a save of the empty form
\* that a failed getMe leaves.
SaveStarts ==
    /\ FormReady /\ save = "idle"
    /\ save' = "profile"
    /\ banner' = "none"
    /\ UNCHANGED <<db, role, loaded, form, typed>>

\* isAdmin is the role in the loaded profile.  (Mutant: the settings of the
\* application are saved whether they were loaded or not.)
AppSaved_always == role = "admin" /\ loaded["profile"] = "yes"
AppSaved == role = "admin" /\ loaded["profile"] = "yes" /\ loaded["app"] = "yes"

ProfileSaved ==
    /\ save = "profile"
    /\ db' = [db EXCEPT !["own"] = form["own"]]
    /\ save' = IF AppSaved THEN "app" ELSE "idle"
    /\ banner' = IF AppSaved THEN banner ELSE "ok"
    /\ UNCHANGED <<role, loaded, form, typed>>

\* buildAppInfoPayload: the base URL only if it was loaded.
Payload == IF loaded["admin"] = "yes" THEN {"title", "base"} ELSE {"title"}

ApplicationSaved ==
    /\ save = "app"
    /\ db' = [f \in Fields |-> IF f \in Payload THEN form[f] ELSE db[f]]
    /\ save' = "idle"
    /\ banner' = "ok"
    /\ UNCHANGED <<role, loaded, form, typed>>

SaveFails ==
    /\ save # "idle"
    /\ save' = "idle"
    /\ banner' = IF save = "profile" THEN "error" ELSE "half"
    /\ UNCHANGED <<db, role, loaded, form, typed>>

\* The upload of a logo stores it and puts its address into the form.
UploadLogo ==
    /\ Enabled("title")
    /\ db' = [db EXCEPT !["title"] = "typed"]
    /\ form' = [form EXCEPT !["title"] = "typed"]
    /\ typed' = typed \cup {"title"}
    /\ UNCHANGED <<role, loaded, save, banner>>

\* Another administrator changes a setting of the application.
OthersSave(f) ==
    /\ db' = [db EXCEPT ![f] = "theirs"]
    /\ UNCHANGED <<role, loaded, form, typed, save, banner>>

TabNext ==
    \/ ProfileArrives \/ AppArrives \/ AdminArrives
    \/ \E s \in Sources : LoadFails(s)
    \/ TypeOwn \/ TypeApp
    \/ SaveStarts \/ ProfileSaved \/ ApplicationSaved \/ SaveFails \/ UploadLogo
    \/ \E f \in AppFields : OthersSave(f)

TabSpec == TabInit /\ [][TabNext]_tabVars

-----------------------------------------------------------------------------
\* A setting of the application that could not be loaded is never saved as
\* empty: only what the user emptied becomes empty, in whatever order the
\* three requests answer or fail.
NoFallbackSaved == \A f \in AppFields : db[f] = "empty" => f \in typed

===============================================================================
