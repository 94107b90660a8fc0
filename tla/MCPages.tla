-------------------------------- MODULE MCPages --------------------------------
(***************************************************************************)
(* The pages and cards of the panel, for TLC.  They share no state, so a   *)
(* behaviour runs one of them, the part, and leaves the others in one      *)
(* initial state: the states are the sum of theirs.                        *)
(***************************************************************************)
EXTENDS SsoSettings, ZoneEditor, BulkEditor, RecordFormats, HistoryList,
        HistoryFocus, AuditRetention, Rollback, ZonesPage, Dnssec, SecretCards,
        TokenForms, WebhookForm, WebhookLog, UsersPage, TLC

CONSTANTS e1, e2

VARIABLE part

Parts == {"sso", "zone", "bulk", "formats", "history", "focus", "retention", "rollback",
          "zones", "dnssec", "secrets", "tokens", "hook", "log", "users"}

allVars == <<ssoVars, zoneEditorVars, bulkVars, formatVars, historyVars, focusVars,
             retentionVars, rollbackVars, zonesVars, dnssecVars, secretVars,
             formVars, webhookFormVars, logVars, usersVars, part>>

\* The events of the form for webhooks are of one category.
OneCategory == [e \in {e1, e2} |-> "record"]

\* What a part may start with is chosen only where it runs.
PagesInit ==
    /\ part \in Parts
    /\ SsoInit
    /\ part # "sso" => server.target = CHOOSE t \in Targets : TRUE
    /\ part # "sso" => server.secret = NoSecret
    /\ ZoneInit
    /\ part # "zone" => zone = {} /\ page.mayEdit
    /\ BulkInit
    /\ part # "bulk" => rrset = {}
    /\ FormatInit
    /\ part # "formats" => type = "TXT"
    /\ HistoryInit
    /\ part # "history" => where = "zone" /\ offset = 0 /\ \A s \in Searches : matching[s] = 0
    /\ FocusInit
    /\ part # "focus" => address = NoEntry
    /\ RetentionInit
    /\ part # "retention" => days = 0
    /\ RollbackInit
    /\ part # "rollback" => \A r \in RRsets : live[r] = "after"
    /\ ZonesInit
    /\ part # "zones" => template.records = 0
    /\ DnssecInit
    /\ part # "dnssec" => keys = NoKeys /\ capability
    /\ SecretInit
    /\ part # "secrets" => card = CHOOSE c \in Cards : TRUE
    /\ TokenFormsInit
    /\ part # "tokens" => /\ kind = "dyndns" /\ token["active"] /\ ~user.admin /\ ~user.zones
    /\ WebhookFormInit
    /\ part # "hook" => hook.filters = {All} /\ hook.readable
    /\ WebhookLogInit
    /\ part # "log" => view = <<"all", 0>>
    /\ UsersInit
    /\ part # "users" => \A u \in Users : grants[u] = Empty

PagesNext ==
    /\ \/ part = "sso" /\ SsoNext
       \/ part = "zone" /\ ZoneNext
       \/ part = "bulk" /\ BulkNext
       \/ part = "formats" /\ FormatNext
       \/ part = "history" /\ HistoryNext
       \/ part = "focus" /\ FocusNext
       \/ part = "retention" /\ RetentionNext
       \/ part = "rollback" /\ RollbackNext
       \/ part = "zones" /\ ZonesNext
       \/ part = "dnssec" /\ DnssecNext
       \/ part = "secrets" /\ SecretNext
       \/ part = "tokens" /\ TokenFormsNext
       \/ part = "hook" /\ WebhookFormNext
       \/ part = "log" /\ WebhookLogNext
       \/ part = "users" /\ UsersNext
    /\ part # "sso" => UNCHANGED ssoVars
    /\ part # "zone" => UNCHANGED zoneEditorVars
    /\ part # "bulk" => UNCHANGED bulkVars
    /\ part # "formats" => UNCHANGED formatVars
    /\ part # "history" => UNCHANGED historyVars
    /\ part # "focus" => UNCHANGED focusVars
    /\ part # "retention" => UNCHANGED retentionVars
    /\ part # "rollback" => UNCHANGED rollbackVars
    /\ part # "zones" => UNCHANGED zonesVars
    /\ part # "dnssec" => UNCHANGED dnssecVars
    /\ part # "secrets" => UNCHANGED secretVars
    /\ part # "tokens" => UNCHANGED formVars
    /\ part # "hook" => UNCHANGED webhookFormVars
    /\ part # "log" => UNCHANGED logVars
    /\ part # "users" => UNCHANGED usersVars
    /\ UNCHANGED part

PagesSpec == PagesInit /\ [][PagesNext]_allVars

\* Bounds: the drawer beside the audit log is tried over the first page without
\* a filter, for it has its own requests; the second unsafe attribute while
\* address, secret and the other card stay as they are and nobody else saves; the
\* filter of the table with the editors the bar opens, for the text editor does
\* not read it; the form that edits an item before anything was created or
\* deleted, for its request makes no secret; the second page of the delivery log
\* under one of its filters.
DrawerAlone == drawer = NoDrawer \/ (offset = 0 /\ search = "" /\ historyFilter.q = "")
SecondAttributeAlone ==
    \/ "cn" \notin {forms.ldap.attr, server.attr, saved.attr, typed.ldap.attr} \cup ssoAgreed
    \/ /\ "general" \notin edited /\ forms.ldap.secret = "keep" /\ ssoOthers = 0
       /\ forms.ldap.target = saved.target /\ saved.target = server.target
FilterForTheBar == filter = BulkVals \/ modal.step = "closed" \/ opened.flow # "text"
EditsFirst == cardForm.edits => issued = 0 /\ items = Items
SecondPageAlone == view # <<"dead", 1>>
PagesBounds ==
    /\ NobodyForced /\ DrawerAlone /\ SecondAttributeAlone
    /\ FilterForTheBar /\ EditsFirst /\ SecondPageAlone

\* The part that runs has the types of its module.
PagesTypeOK ==
    CASE part = "sso" -> SsoTypeOK
      [] part = "zone" -> ZoneTypeOK
      [] part = "bulk" -> BulkTypeOK
      [] part = "formats" -> FormatTypeOK
      [] part = "history" -> HistoryTypeOK
      [] part = "focus" -> FocusTypeOK
      [] part = "retention" -> RetentionTypeOK
      [] part = "rollback" -> RollbackTypeOK
      [] part = "zones" -> ZonesTypeOK
      [] part = "dnssec" -> DnssecTypeOK
      [] part = "secrets" -> SecretTypeOK
      [] part = "tokens" -> TokenFormsTypeOK
      [] part = "hook" -> WebhookFormTypeOK
      [] part = "log" -> WebhookLogTypeOK
      [] part = "users" -> UsersTypeOK

\* What a page shows after its requests is what became of them, however their
\* answers overtake one another: the zone after an own write, the deliveries, the
\* history and its pinned entry, and a zone that was created.
ShownIsTrue ==
    /\ OwnWritesAreTold /\ LogAnswersItsView /\ HistoryIsTrue
    /\ FocusFollowsAddress /\ CreateTold

\* What a form stores is what it showed, where an empty entry has a meaning of its
\* own: the retention of the audit log, and the events of a webhook.
StoredAsMeant == RetentionIsMeant /\ TickedIsDelivered

\* What was not in sight is not taken away: records by a bulk change, and grants
\* by the editor of an account.
NothingTakenUnseen == [][RemovesOnlySeen /\ TakesOnlyUnticked]_allVars

================================================================================
