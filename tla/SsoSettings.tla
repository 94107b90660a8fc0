------------------------------ MODULE SsoSettings ------------------------------
(***************************************************************************)
(* The tab "Login / SSO" of the settings (sso.tab.jsx, components/sso):    *)
(* cards that share one page and are saved one at a time, each as a whole, *)
(* against settings that another administrator may change meanwhile.  Two  *)
(* of them are modelled: "general" with one switch, and "ldap" with the    *)
(* attribute that identifies an account, the confirmation an unsafe        *)
(* attribute needs, the server, and the secret stored for that server.     *)
(* The OIDC card has the same secret and the same path of a save.          *)
(***************************************************************************)
EXTENDS Naturals, FiniteSets

CONSTANTS Unsafe,      \* ID attributes that are not on the list of safe ones
          Targets,     \* servers a card may point at
          OthersBound  \* bound: saves of another administrator

ASSUME SsoAssumption == Targets # {} /\ OthersBound \in Nat

Safe == "objectGUID"
Attrs == {Safe} \cup Unsafe
NoSecret == "none"
SsoSections == {"general", "ldap"}

VARIABLES
    server,   \* the stored settings; secret: the target it was entered for
    saved,    \* what the page last got from the server
    forms,    \* the form of each card
    busy,     \* "", a card being saved, or "test"
    sent,     \* payload of the running request
    ssoOthers,   \* saves of other administrators so far
    edited,   \* observer: cards with edits that were not saved since
    typed,    \* observer: the form as the user last left it
    ssoAgreed    \* observer: attributes somebody confirmed while seeing them

ssoVars == <<server, saved, forms, busy, sent, ssoOthers, edited, typed, ssoAgreed>>

\* bind_password_new and bind_password_remove: keep, set or clear.
SsoSecrets == {"keep", "set", "clear"}
LdapForms == [attr : Attrs, confirmed : BOOLEAN, target : Targets, secret : SsoSecrets]
Forms == [general : BOOLEAN, ldap : LdapForms]
SsoStored == [general : BOOLEAN, attr : Attrs, confirmed : BOOLEAN,
           target : Targets, secret : Targets \cup {NoSecret}]

SsoTypeOK ==
    /\ server \in SsoStored /\ saved \in SsoStored
    /\ forms \in Forms /\ typed \in Forms
    /\ busy \in SsoSections \cup {"", "test"}
    /\ sent \in Forms
    /\ ssoOthers \in 0..OthersBound
    /\ edited \subseteq SsoSections /\ ssoAgreed \subseteq Attrs

\* The value of "sent" while no card is being saved.
NothingSent == [general |-> TRUE,
                ldap |-> [attr |-> Safe, confirmed |-> FALSE,
                          target |-> CHOOSE t \in Targets : TRUE, secret |-> "keep"]]

\* ldapFormFromSettings and generalFormFromSettings: the inputs for the
\* secret start empty.
FormFrom(section, settings) ==
    IF section = "general" THEN settings.general
    ELSE [attr |-> settings.attr, confirmed |-> settings.confirmed,
          target |-> settings.target, secret |-> "keep"]

SsoInit ==
    /\ server \in [general : {TRUE}, attr : Attrs, confirmed : {FALSE},
                   target : Targets, secret : Targets \cup {NoSecret}]
    /\ server.attr = Safe /\ server.secret \in {NoSecret, server.target}
    /\ saved = server
    /\ forms = [s \in SsoSections |-> FormFrom(s, server)]
    /\ typed = forms /\ sent = NothingSent
    /\ busy = "" /\ ssoOthers = 0
    /\ edited = {} /\ ssoAgreed = {}

-----------------------------------------------------------------------------
\* The buttons of all cards wait for the request of one of them.
Unoccupied == busy = ""

\* Editing: the inputs stay enabled while a request runs.

Edit(section, form) ==
    /\ forms' = [forms EXCEPT ![section] = form]
    /\ typed' = [typed EXCEPT ![section] = form]
    /\ edited' = edited \cup {section}
    /\ UNCHANGED <<server, saved, busy, sent, ssoOthers>>

\* setUniqueIdAttr: another attribute does not inherit the confirmation.
ConfirmedFor(a) == IF a = saved.attr THEN saved.confirmed ELSE FALSE

SetUniqueIdAttr(a) ==
    /\ Edit("ldap", [forms.ldap EXCEPT !.attr = a, !.confirmed = ConfirmedFor(a)])
    /\ UNCHANGED ssoAgreed

\* applyPreset: all presets bring a safe attribute, not confirmed.
HandlePreset ==
    /\ Unoccupied
    /\ Edit("ldap", [forms.ldap EXCEPT !.attr = Safe, !.confirmed = FALSE])
    /\ UNCHANGED ssoAgreed

\* The tick is shown for an unsafe attribute alone.
TickConfirmed(b) ==
    /\ forms.ldap.attr # Safe
    /\ Edit("ldap", [forms.ldap EXCEPT !.confirmed = b])
    /\ ssoAgreed' = IF b THEN ssoAgreed \cup {forms.ldap.attr} ELSE ssoAgreed

SetTarget(t) == Edit("ldap", [forms.ldap EXCEPT !.target = t]) /\ UNCHANGED ssoAgreed

\* SecretField: removing is offered when a secret is stored.
SetSecret(s) ==
    /\ s = "clear" => saved.secret # NoSecret
    /\ Edit("ldap", [forms.ldap EXCEPT !.secret = s])
    /\ UNCHANGED ssoAgreed

SetGeneral(b) == Edit("general", b) /\ UNCHANGED ssoAgreed

-----------------------------------------------------------------------------
\* Saving a card.

\* sectionBlockers, which also disables the button of the card.
Blocked(section) ==
    section = "ldap" /\ forms.ldap.attr # Safe /\ ~forms.ldap.confirmed

\* SECTION_PAYLOAD: only the own section is sent, as it is now; a secret that
\* was not entered is not part of it.
Payload(section) == [NothingSent EXCEPT ![section] = forms[section]]

\* handleSave
StartSave(section) ==
    /\ Unoccupied /\ ~Blocked(section)
    /\ busy' = section
    /\ sent' = Payload(section)
    /\ UNCHANGED <<server, saved, forms, ssoOthers, edited, typed, ssoAgreed>>

\* ldapPayload sends the confirmation for an unsafe attribute alone; without
\* it the server drops the stored one when the attribute changes.
StoredConfirmed(old, form) ==
    IF form.attr # Safe THEN form.confirmed
    ELSE IF form.attr # old.attr THEN FALSE ELSE old.confirmed

\* guard_secret_retarget: a stored secret never goes to another server.
\* (Mutant: the guard trusts the form that the page loaded.)
Retargeted_stale(old, form) ==
    form.target # saved.target /\ old.secret # NoSecret /\ form.secret = "keep"
Retargeted(old, form) ==
    form.target # old.target /\ old.secret # NoSecret /\ form.secret = "keep"

\* The settings of the server after a section was saved: _merge_section.
SsoMerged(section, old, form) ==
    IF section = "general" THEN [old EXCEPT !.general = form]
    ELSE [old EXCEPT !.attr = form.attr, !.target = form.target,
                     !.confirmed = StoredConfirmed(old, form),
                     !.secret = CASE form.secret = "keep" -> old.secret
                                  [] form.secret = "set" -> form.target
                                  [] form.secret = "clear" -> NoSecret]

\* Only the saved card is filled again.
Refilled(section) == {section}

SsoAccepted(section) ==
    section = "ldap" => ~Retargeted(server, sent.ldap)

SsoSaveSucceeds ==
    /\ busy \in SsoSections /\ SsoAccepted(busy)
    /\ server' = SsoMerged(busy, server, sent[busy])
    /\ saved' = server'
    /\ forms' = [s \in SsoSections |->
                   IF s \in Refilled(busy) THEN FormFrom(s, server') ELSE forms[s]]
    /\ edited' = edited \ {busy}
    /\ typed' = [typed EXCEPT ![busy] = forms'[busy]]
    /\ busy' = "" /\ sent' = NothingSent
    /\ UNCHANGED <<ssoOthers, ssoAgreed>>

\* Refused, cancelled in the step-up dialog, or lost: the form stays.
SsoSaveFails ==
    /\ busy \in SsoSections
    /\ busy' = "" /\ sent' = NothingSent
    /\ UNCHANGED <<server, saved, forms, ssoOthers, edited, typed, ssoAgreed>>

\* handleTest sends the form of a card and changes nothing but its result.
StartTest ==
    /\ Unoccupied
    /\ busy' = "test"
    /\ UNCHANGED <<server, saved, forms, sent, ssoOthers, edited, typed, ssoAgreed>>

TestEnds ==
    /\ busy = "test"
    /\ busy' = ""
    /\ UNCHANGED <<server, saved, forms, sent, ssoOthers, edited, typed, ssoAgreed>>

-----------------------------------------------------------------------------
\* Another administrator saves the card on their own page.
OthersSave(form) ==
    /\ ssoOthers < OthersBound
    /\ form.attr # Safe => form.confirmed
    /\ ~Retargeted(server, form)
    /\ server' = SsoMerged("ldap", server, form)
    /\ ssoAgreed' = IF form.attr # Safe THEN ssoAgreed \cup {form.attr} ELSE ssoAgreed
    /\ ssoOthers' = ssoOthers + 1
    /\ UNCHANGED <<saved, forms, busy, sent, edited, typed>>

SsoNext ==
    \/ \E a \in Attrs : SetUniqueIdAttr(a)
    \/ HandlePreset
    \/ \E b \in BOOLEAN : TickConfirmed(b) \/ SetGeneral(b)
    \/ \E t \in Targets : SetTarget(t)
    \/ \E s \in SsoSecrets : SetSecret(s)
    \/ \E s \in SsoSections : StartSave(s)
    \/ SsoSaveSucceeds \/ SsoSaveFails \/ StartTest \/ TestEnds
    \/ \E f \in LdapForms : OthersSave(f)

SsoSpec == SsoInit /\ [][SsoNext]_ssoVars

-----------------------------------------------------------------------------
\* An unsafe ID attribute is in force only if somebody confirmed that very
\* attribute, whatever was ticked for another one before and whoever saved.
UnsafeWasConfirmed == server.attr # Safe => server.confirmed /\ server.attr \in ssoAgreed

\* The stored secret is only ever used with the server it was entered for,
\* also when a page saves a card it loaded before somebody else's change.
SecretStaysWithTarget == server.secret \in {NoSecret, server.target}

\* Saving one card keeps what was typed into the others and not saved.
UnsavedEditsStay == \A s \in edited : forms[s] = typed[s]

\* What is in force was confirmed and goes to the server it was entered for, and
\* what is on the page and not saved is what was typed: the three of them.
SettingsAreMeant == UnsafeWasConfirmed /\ SecretStaysWithTarget /\ UnsavedEditsStay

===============================================================================
