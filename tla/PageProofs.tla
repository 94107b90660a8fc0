------------------------------ MODULE PageProofs ------------------------------
(***************************************************************************)
(* Theorems about SsoSettings, for any set of fields and any values, about *)
(* Rollback, for any set of RRsets and any number of changes by others,    *)
(* and the invariants of ZoneEditor, for any values, requests and changes  *)
(* by others, of ZonesPage, for any servers and numbers of records, and of *)
(* RecordFormats, for texts of any length; FormProofs puts the pages side  *)
(* by side.                                                                *)
(***************************************************************************)
EXTENDS SsoSettings, Rollback, ZoneEditor, ZonesPage, RecordFormats,
        SequenceTheorems, FiniteSetTheorems, TLAPS

USE SsoAssumption

(* A confirmation on its way, on the page or in a request, belongs to the   *)
(* attribute somebody saw when giving it.                                   *)

FormIsAgreed(f) == f.attr # Safe /\ f.confirmed => f.attr \in ssoAgreed

ConfirmationsAreMeant ==
    /\ saved.attr # Safe => saved.attr \in ssoAgreed
    /\ FormIsAgreed(forms.ldap)
    /\ busy = "ldap" => FormIsAgreed(sent.ldap)
                        /\ (sent.ldap.attr # Safe => sent.ldap.confirmed)

SsoInv == SsoTypeOK /\ ConfirmationsAreMeant /\ SettingsAreMeant

-----------------------------------------------------------------------------
(* What the operators return.                                               *)

LEMMA NothingSentType == NothingSent \in Forms
<1>1. (CHOOSE t \in Targets : TRUE) \in Targets
      OBVIOUS
<1> QED BY <1>1 DEF NothingSent, Forms, LdapForms, Attrs, SsoSecrets

LEMMA FormFromType ==
    ASSUME NEW old \in SsoStored
    PROVE  /\ FormFrom("general", old) \in BOOLEAN
           /\ FormFrom("ldap", old) \in LdapForms
           /\ FormFrom("ldap", old).attr = old.attr
BY DEF FormFrom, SsoStored, LdapForms, SsoSecrets

(* A merged card keeps what makes the settings sound: the confirmation      *)
(* belongs to the attribute, the secret to the server.                      *)

LEMMA LdapMerged ==
    ASSUME NEW old \in SsoStored, NEW fields \in LdapForms, ~Retargeted(old, fields),
           old.secret \in {NoSecret, old.target},
           fields.attr # Safe => fields.confirmed
    PROVE  LET new == SsoMerged("ldap", old, fields)
           IN /\ new \in SsoStored
              /\ new.secret \in {NoSecret, new.target}
              /\ new.attr = fields.attr
              /\ new.attr # Safe => new.confirmed
<1> DEFINE secret == CASE fields.secret = "keep" -> old.secret
                       [] fields.secret = "set" -> fields.target
                       [] fields.secret = "clear" -> NoSecret
           confirmed == StoredConfirmed(old, fields)
           new == [old EXCEPT !.attr = fields.attr, !.target = fields.target,
                              !.confirmed = confirmed, !.secret = secret]
<1>1. confirmed \in BOOLEAN /\ (fields.attr # Safe => confirmed)
      BY DEF StoredConfirmed, SsoStored, LdapForms
<1>2. secret \in Targets \cup {NoSecret} /\ secret \in {NoSecret, fields.target}
      BY DEF Retargeted, SsoStored, LdapForms, SsoSecrets
<1>3. SsoMerged("ldap", old, fields) = new
      BY DEF SsoMerged
<1> HIDE DEF secret, confirmed
<1>4. /\ new \in SsoStored /\ new.attr = fields.attr /\ new.target = fields.target
      /\ new.secret = secret /\ new.confirmed = confirmed
      BY <1>1, <1>2 DEF SsoStored, LdapForms
<1> QED BY <1>1, <1>2, <1>3, <1>4

LEMMA GeneralMerged ==
    ASSUME NEW old \in SsoStored, NEW b \in BOOLEAN
    PROVE  LET new == SsoMerged("general", old, b)
           IN /\ new \in SsoStored /\ new.secret = old.secret /\ new.target = old.target
              /\ new.attr = old.attr /\ new.confirmed = old.confirmed
BY DEF SsoMerged, SsoStored

-----------------------------------------------------------------------------
(* One lemma per action.                                                     *)

LEMMA SsoTyped ==
    ASSUME SsoInv
    PROVE  /\ server \in SsoStored /\ saved \in SsoStored
           /\ forms \in Forms /\ typed \in Forms /\ sent \in Forms
           /\ forms["general"] \in BOOLEAN /\ forms["ldap"] \in LdapForms
           /\ sent["general"] \in BOOLEAN /\ sent["ldap"] \in LdapForms
           /\ busy \in SsoSections \cup {"", "test"}
           /\ ssoOthers \in 0..OthersBound
           /\ edited \subseteq SsoSections /\ ssoAgreed \subseteq Attrs
BY DEF SsoInv, SsoTypeOK, Forms

(* A card with a new form.  *)

LEMMA Replaced ==
    ASSUME NEW f \in Forms, NEW section \in SsoSections, NEW fields,
           section = "general" => fields \in BOOLEAN,
           section = "ldap" => fields \in LdapForms
    PROVE  /\ [f EXCEPT ![section] = fields] \in Forms
           /\ [f EXCEPT ![section] = fields][section] = fields
           /\ \A s \in SsoSections : s # section => [f EXCEPT ![section] = fields][s] = f[s]
BY DEF Forms, SsoSections

LEMMA EditInv ==
    ASSUME SsoInv, NEW section \in SsoSections, NEW fields,
           section = "general" => fields \in BOOLEAN,
           section = "ldap" => fields \in LdapForms,
           Edit(section, fields),
           ssoAgreed \subseteq ssoAgreed', ssoAgreed' \subseteq Attrs,
           section = "ldap" => (fields.attr # Safe /\ fields.confirmed => fields.attr \in ssoAgreed')
    PROVE  SsoInv'
<1>1. /\ forms' = [forms EXCEPT ![section] = fields]
      /\ typed' = [typed EXCEPT ![section] = fields]
      /\ edited' = edited \cup {section}
      /\ UNCHANGED <<server, saved, busy, sent, ssoOthers>>
      BY DEF Edit
<1>2. /\ forms' \in Forms /\ forms'[section] = fields
      /\ \A s \in SsoSections : s # section => forms'[s] = forms[s]
  <2>1. forms \in Forms
        BY SsoTyped
  <2> QED BY <1>1, <2>1 DEF Forms, SsoSections
<1>3. /\ typed' \in Forms /\ typed'[section] = fields
      /\ \A s \in SsoSections : s # section => typed'[s] = typed[s]
  <2>1. typed \in Forms
        BY SsoTyped
  <2> QED BY <1>1, <2>1 DEF Forms, SsoSections
<1>4. SsoTypeOK'
      BY <1>1, <1>2, <1>3, SsoTyped DEF SsoTypeOK
<1>5. ConfirmationsAreMeant'
  <2>1. FormIsAgreed(forms.ldap)'
        BY <1>2 DEF SsoInv, ConfirmationsAreMeant, FormIsAgreed, SsoSections
  <2>2. /\ saved.attr # Safe => saved.attr \in ssoAgreed
        /\ busy = "ldap" => FormIsAgreed(sent.ldap)
                            /\ (sent.ldap.attr # Safe => sent.ldap.confirmed)
        BY DEF SsoInv, ConfirmationsAreMeant
  <2>3. /\ (saved.attr # Safe => saved.attr \in ssoAgreed)'
        /\ (busy = "ldap" => FormIsAgreed(sent.ldap)
                             /\ (sent.ldap.attr # Safe => sent.ldap.confirmed))'
        BY <1>1, <2>2 DEF FormIsAgreed
  <2> QED BY <2>1, <2>3 DEF ConfirmationsAreMeant
<1>6. UnsafeWasConfirmed' /\ SecretStaysWithTarget'
      BY <1>1 DEF SsoInv, SettingsAreMeant, UnsafeWasConfirmed, SecretStaysWithTarget
<1>7. UnsavedEditsStay'
      BY <1>1, <1>2, <1>3, SsoTyped DEF SsoInv, SettingsAreMeant, UnsavedEditsStay
<1> QED BY <1>4, <1>5, <1>6, <1>7 DEF SsoInv, SettingsAreMeant

LEMMA EditingInv ==
    ASSUME SsoInv,
           \/ \E a \in Attrs : SetUniqueIdAttr(a)
           \/ HandlePreset
           \/ \E b \in BOOLEAN : TickConfirmed(b) \/ SetGeneral(b)
           \/ \E t \in Targets : SetTarget(t)
           \/ \E s \in SsoSecrets : SetSecret(s)
    PROVE  SsoInv'
<1> DEFINE ldap == forms["ldap"]
<1>1. /\ ldap \in LdapForms /\ saved \in SsoStored /\ ssoAgreed \subseteq Attrs
      /\ ldap.attr # Safe /\ ldap.confirmed => ldap.attr \in ssoAgreed
      /\ saved.attr # Safe => saved.attr \in ssoAgreed
      BY SsoTyped DEF SsoInv, ConfirmationsAreMeant, FormIsAgreed
<1>2. "ldap" \in SsoSections /\ "general" \in SsoSections
      BY DEF SsoSections
<1>3. ASSUME NEW a \in Attrs, SetUniqueIdAttr(a)
      PROVE  SsoInv'
  <2> DEFINE fields == [ldap EXCEPT !.attr = a, !.confirmed = ConfirmedFor(a)]
  <2>1. ConfirmedFor(a) \in BOOLEAN /\ (ConfirmedFor(a) => a = saved.attr)
        BY <1>1 DEF ConfirmedFor, SsoStored
  <2>2. fields \in LdapForms /\ fields.attr = a /\ (fields.confirmed => a = saved.attr)
        BY <1>1, <2>1 DEF LdapForms
  <2>3. Edit("ldap", fields) /\ ssoAgreed' = ssoAgreed
        BY <1>3 DEF SetUniqueIdAttr
  <2> HIDE DEF fields
  <2> QED BY <1>1, <1>2, <2>2, <2>3, EditInv
<1>4. CASE HandlePreset
  <2> DEFINE fields == [ldap EXCEPT !.attr = Safe, !.confirmed = FALSE]
  <2>1. fields \in LdapForms /\ fields.attr = Safe
        BY <1>1 DEF LdapForms, Attrs
  <2>2. Edit("ldap", fields) /\ ssoAgreed' = ssoAgreed
        BY <1>4 DEF HandlePreset
  <2> HIDE DEF fields
  <2> QED BY <1>1, <1>2, <2>1, <2>2, EditInv
<1>5. ASSUME NEW b \in BOOLEAN, TickConfirmed(b)
      PROVE  SsoInv'
  <2> DEFINE fields == [ldap EXCEPT !.confirmed = b]
  <2>1. fields \in LdapForms /\ fields.attr = ldap.attr /\ fields.confirmed = b
        BY <1>1 DEF LdapForms
  <2>2. Edit("ldap", fields)
        BY <1>5 DEF TickConfirmed
  <2>3. ssoAgreed' = IF b THEN ssoAgreed \cup {ldap.attr} ELSE ssoAgreed
        BY <1>5 DEF TickConfirmed
  <2>4. /\ ssoAgreed \subseteq ssoAgreed' /\ ssoAgreed' \subseteq Attrs
        /\ b => ldap.attr \in ssoAgreed'
        BY <1>1, <2>3 DEF LdapForms
  <2> HIDE DEF fields
  <2> QED BY <1>2, <2>1, <2>2, <2>4, EditInv
<1>6. ASSUME NEW b \in BOOLEAN, SetGeneral(b)
      PROVE  SsoInv'
      BY <1>1, <1>2, <1>6, EditInv DEF SetGeneral
<1>7. ASSUME NEW fields \in LdapForms, Edit("ldap", fields), ssoAgreed' = ssoAgreed,
             fields.attr = ldap.attr, fields.confirmed = ldap.confirmed
      PROVE  SsoInv'
      BY <1>1, <1>2, <1>7, EditInv
<1>8. ASSUME NEW t \in Targets, SetTarget(t)
      PROVE  SsoInv'
  <2> DEFINE fields == [ldap EXCEPT !.target = t]
  <2>1. fields \in LdapForms /\ fields.attr = ldap.attr /\ fields.confirmed = ldap.confirmed
        BY <1>1 DEF LdapForms
  <2>2. Edit("ldap", fields) /\ ssoAgreed' = ssoAgreed
        BY <1>8 DEF SetTarget
  <2> HIDE DEF fields
  <2> QED BY <1>7, <2>1, <2>2
<1>9. ASSUME NEW s \in SsoSecrets, SetSecret(s)
      PROVE  SsoInv'
  <2> DEFINE fields == [ldap EXCEPT !.secret = s]
  <2>1. fields \in LdapForms /\ fields.attr = ldap.attr /\ fields.confirmed = ldap.confirmed
        BY <1>1 DEF LdapForms
  <2>2. Edit("ldap", fields) /\ ssoAgreed' = ssoAgreed
        BY <1>9 DEF SetSecret
  <2> HIDE DEF fields
  <2> QED BY <1>7, <2>1, <2>2
<1> QED BY <1>3, <1>4, <1>5, <1>6, <1>8, <1>9

LEMMA StartSaveInv ==
    ASSUME SsoInv, NEW section \in SsoSections, StartSave(section)
    PROVE  SsoInv'
<1>1. /\ ~Blocked(section) /\ busy' = section /\ sent' = Payload(section)
      /\ UNCHANGED <<server, saved, forms, ssoOthers, edited, typed, ssoAgreed>>
      BY DEF StartSave
<1>2. /\ sent' \in Forms /\ sent'[section] = forms[section]
  <2>1. NothingSent \in Forms /\ (section = "general" => forms[section] \in BOOLEAN)
        /\ (section = "ldap" => forms[section] \in LdapForms)
        BY NothingSentType, SsoTyped
  <2> QED BY <1>1, <2>1 DEF Payload, Forms, SsoSections
<1>3. SsoTypeOK'
      BY <1>1, <1>2, SsoTyped DEF SsoTypeOK
<1>4. ConfirmationsAreMeant'
  <2>1. /\ (saved.attr # Safe => saved.attr \in ssoAgreed)'
        /\ FormIsAgreed(forms.ldap)'
        BY <1>1 DEF SsoInv, ConfirmationsAreMeant, FormIsAgreed
  <2>2. CASE section = "ldap"
    <3>1. sent'["ldap"] = forms["ldap"]
          BY <1>2, <2>2
    <3>2. forms["ldap"].attr # Safe => forms["ldap"].confirmed
          BY <1>1, <2>2 DEF Blocked
    <3>3. (FormIsAgreed(sent.ldap) /\ (sent.ldap.attr # Safe => sent.ldap.confirmed))'
          BY <1>1, <3>1, <3>2 DEF SsoInv, ConfirmationsAreMeant, FormIsAgreed
    <3> QED BY <2>1, <3>3 DEF ConfirmationsAreMeant
  <2>3. CASE section # "ldap"
        BY <1>1, <2>1, <2>3 DEF ConfirmationsAreMeant
  <2> QED BY <2>2, <2>3
<1>5. SettingsAreMeant'
      BY <1>1 DEF SsoInv, SettingsAreMeant, UnsafeWasConfirmed, SecretStaysWithTarget,
                  UnsavedEditsStay
<1> QED BY <1>3, <1>4, <1>5 DEF SsoInv

(* A step that ends or starts a request without effect on the settings.      *)

LEMMA NoEffectInv ==
    ASSUME SsoInv, busy' \in {"", "test"}, sent' \in Forms,
           UNCHANGED <<server, saved, forms, ssoOthers, edited, typed, ssoAgreed>>
    PROVE  SsoInv'
<1>1. SsoTypeOK'
      BY SsoTyped DEF SsoTypeOK
<1>2. ConfirmationsAreMeant'
      BY DEF SsoInv, ConfirmationsAreMeant, FormIsAgreed
<1>3. SettingsAreMeant'
      BY DEF SsoInv, SettingsAreMeant, UnsafeWasConfirmed, SecretStaysWithTarget,
             UnsavedEditsStay
<1> QED BY <1>1, <1>2, <1>3 DEF SsoInv

LEMMA SaveSucceedsInv ==
    ASSUME SsoInv, SsoSaveSucceeds
    PROVE  SsoInv'
<1>1. /\ busy \in SsoSections /\ SsoAccepted(busy)
      /\ server' = SsoMerged(busy, server, sent[busy])
      /\ saved' = server'
      /\ forms' = [s \in SsoSections |-> IF s = busy THEN FormFrom(s, server') ELSE forms[s]]
      /\ edited' = edited \ {busy}
      /\ typed' = [typed EXCEPT ![busy] = forms'[busy]]
      /\ busy' = "" /\ sent' = NothingSent
      /\ UNCHANGED <<ssoOthers, ssoAgreed>>
      BY DEF SsoSaveSucceeds, Refilled
<1>2. /\ server'.attr # Safe => server'.confirmed /\ server'.attr \in ssoAgreed
      /\ server' \in SsoStored /\ server'.secret \in {NoSecret, server'.target}
  <2>1. /\ server.attr # Safe => server.confirmed /\ server.attr \in ssoAgreed
        /\ server \in SsoStored /\ server.secret \in {NoSecret, server.target}
        BY SsoTyped DEF SsoInv, SettingsAreMeant, UnsafeWasConfirmed, SecretStaysWithTarget
  <2>2. CASE busy = "ldap"
    <3>1. /\ sent["ldap"] \in LdapForms /\ ~Retargeted(server, sent["ldap"])
          /\ server' = SsoMerged("ldap", server, sent["ldap"])
          BY <1>1, <2>2, SsoTyped DEF SsoAccepted
    <3>2. sent["ldap"].attr # Safe => sent["ldap"].confirmed /\ sent["ldap"].attr \in ssoAgreed
          BY <2>2 DEF SsoInv, ConfirmationsAreMeant, FormIsAgreed
    <3> QED BY <2>1, <3>1, <3>2, LdapMerged
  <2>3. CASE busy = "general"
    <3>1. sent["general"] \in BOOLEAN /\ server' = SsoMerged("general", server, sent["general"])
          BY <1>1, <2>3, SsoTyped
    <3> QED BY <2>1, <3>1, GeneralMerged
  <2> QED BY <1>1, <2>2, <2>3 DEF SsoSections
<1>3. /\ FormFrom("general", server') \in BOOLEAN
      /\ FormFrom("ldap", server') \in LdapForms
      /\ FormFrom("ldap", server').attr = server'.attr
      BY <1>2, FormFromType
<1>4. /\ forms'["general"] \in BOOLEAN /\ forms'["ldap"] \in LdapForms
      /\ forms'["ldap"].attr # Safe /\ forms'["ldap"].confirmed
            => forms'["ldap"].attr \in ssoAgreed
  <2>1. CASE busy = "ldap"
    <3>1. forms'["ldap"] = FormFrom("ldap", server') /\ forms'["general"] = forms["general"]
          BY <1>1, <2>1 DEF SsoSections
    <3> QED BY <1>2, <1>3, <3>1, SsoTyped
  <2>2. CASE busy = "general"
    <3>1. forms'["general"] = FormFrom("general", server') /\ forms'["ldap"] = forms["ldap"]
          BY <1>1, <2>2 DEF SsoSections
    <3> QED BY <1>3, <3>1, SsoTyped DEF SsoInv, ConfirmationsAreMeant, FormIsAgreed
  <2> QED BY <1>1, <2>1, <2>2 DEF SsoSections
<1>5. forms' \in Forms
  <2>1. forms' = [s \in {"general", "ldap"} |-> forms'[s]]
        BY <1>1 DEF SsoSections
  <2> QED BY <1>4, <2>1 DEF Forms
<1>6. /\ typed' \in Forms /\ typed'[busy] = forms'[busy]
      /\ \A s \in SsoSections : s # busy => typed'[s] = typed[s] /\ forms'[s] = forms[s]
  <2>1. typed \in Forms
        BY SsoTyped
  <2>2. /\ busy = "general" => forms'[busy] \in BOOLEAN
        /\ busy = "ldap" => forms'[busy] \in LdapForms
        BY <1>4
  <2>3. /\ typed' \in Forms /\ typed'[busy] = forms'[busy]
        /\ \A s \in SsoSections : s # busy => typed'[s] = typed[s]
        BY <1>1, <2>1, <2>2 DEF Forms, SsoSections
  <2>4. \A s \in SsoSections : s # busy => forms'[s] = forms[s]
        BY <1>1
  <2> QED BY <2>3, <2>4
<1>7. SsoTypeOK'
      BY <1>1, <1>2, <1>5, <1>6, NothingSentType, SsoTyped DEF SsoTypeOK
<1>8. ConfirmationsAreMeant'
      BY <1>1, <1>2, <1>4 DEF ConfirmationsAreMeant, FormIsAgreed
<1>9. UnsafeWasConfirmed' /\ SecretStaysWithTarget'
      BY <1>1, <1>2 DEF UnsafeWasConfirmed, SecretStaysWithTarget
<1>10. UnsavedEditsStay'
      BY <1>1, <1>6, SsoTyped DEF SsoInv, SettingsAreMeant, UnsavedEditsStay
<1> QED BY <1>7, <1>8, <1>9, <1>10 DEF SsoInv, SettingsAreMeant

LEMMA OthersSaveInv ==
    ASSUME SsoInv, NEW f \in LdapForms, OthersSave(f)
    PROVE  SsoInv'
<1>1. /\ ssoOthers < OthersBound /\ ssoOthers' = ssoOthers + 1
      /\ f.attr # Safe => f.confirmed
      /\ ~Retargeted(server, f)
      /\ server' = SsoMerged("ldap", server, f)
      /\ ssoAgreed' = IF f.attr # Safe THEN ssoAgreed \cup {f.attr} ELSE ssoAgreed
      /\ UNCHANGED <<saved, forms, busy, sent, edited, typed>>
      BY DEF OthersSave
<1>2. server \in SsoStored /\ server.secret \in {NoSecret, server.target}
      BY SsoTyped DEF SsoInv, SettingsAreMeant, SecretStaysWithTarget
<1>3. /\ server' \in SsoStored /\ server'.secret \in {NoSecret, server'.target}
      /\ server'.attr = f.attr /\ (server'.attr # Safe => server'.confirmed)
      BY <1>1, <1>2, LdapMerged
<1>4. /\ ssoAgreed \subseteq ssoAgreed' /\ ssoAgreed' \subseteq Attrs
      /\ f.attr # Safe => f.attr \in ssoAgreed'
      BY <1>1, SsoTyped DEF LdapForms
<1>5. SsoTypeOK'
  <2>1. ssoOthers' \in 0..OthersBound
    <3>1. ssoOthers \in 0..OthersBound
          BY SsoTyped
    <3>2. ssoOthers < OthersBound /\ ssoOthers' = ssoOthers + 1
          BY <1>1
    <3> QED BY <3>1, <3>2
  <2>2. UNCHANGED <<saved, forms, busy, sent, edited, typed>>
        BY <1>1
  <2> QED BY <1>3, <1>4, <2>1, <2>2, SsoTyped DEF SsoTypeOK
<1>6. ConfirmationsAreMeant'
      BY <1>1, <1>4 DEF SsoInv, ConfirmationsAreMeant, FormIsAgreed
<1>7. SettingsAreMeant'
      BY <1>1, <1>3, <1>4 DEF SsoInv, SettingsAreMeant, UnsafeWasConfirmed,
                               SecretStaysWithTarget, UnsavedEditsStay
<1> QED BY <1>5, <1>6, <1>7 DEF SsoInv

-----------------------------------------------------------------------------
LEMMA SsoInitInv == SsoInit => SsoInv
<1> SUFFICES ASSUME SsoInit PROVE SsoInv
    OBVIOUS
<1>1. /\ server \in SsoStored /\ server.attr = Safe
      /\ server.secret \in {NoSecret, server.target}
      /\ saved = server /\ forms = [s \in SsoSections |-> FormFrom(s, server)]
      /\ typed = forms /\ sent = NothingSent /\ busy = "" /\ ssoOthers = 0
      /\ edited = {} /\ ssoAgreed = {}
      BY DEF SsoInit, SsoStored
<1>2. /\ forms["general"] \in BOOLEAN /\ forms["ldap"] \in LdapForms
      /\ forms["ldap"].attr = Safe
      BY <1>1, FormFromType DEF SsoSections
<1>3. forms \in Forms
  <2>1. forms = [s \in {"general", "ldap"} |-> forms[s]]
        BY <1>1 DEF SsoSections
  <2> QED BY <1>2, <2>1 DEF Forms
<1>4. SsoTypeOK
  <2>1. ssoOthers = 0
        BY <1>1
  <2>2. ssoOthers \in 0..OthersBound
        BY <2>1
  <2> QED BY <1>1, <1>3, <2>2, NothingSentType DEF SsoTypeOK
<1>5. ConfirmationsAreMeant /\ SettingsAreMeant
      BY <1>1, <1>2 DEF ConfirmationsAreMeant, FormIsAgreed, SettingsAreMeant,
                        UnsafeWasConfirmed, SecretStaysWithTarget, UnsavedEditsStay
<1> QED BY <1>4, <1>5 DEF SsoInv

LEMMA SsoNextInv == SsoInv /\ [SsoNext]_ssoVars => SsoInv'
<1> SUFFICES ASSUME SsoInv, [SsoNext]_ssoVars
             PROVE  SsoInv'
    OBVIOUS
<1>1. ASSUME NEW s \in SsoSections, StartSave(s)
      PROVE  SsoInv'
      BY <1>1, StartSaveInv
<1>2. CASE SsoSaveSucceeds
      BY <1>2, SaveSucceedsInv
<1>3. CASE SsoSaveFails \/ StartTest \/ TestEnds
      BY <1>3, NoEffectInv, NothingSentType, SsoTyped DEF SsoSaveFails, StartTest, TestEnds
<1>4. ASSUME NEW f \in LdapForms, OthersSave(f)
      PROVE  SsoInv'
      BY <1>4, OthersSaveInv
<1>5. CASE UNCHANGED ssoVars
      BY <1>5 DEF ssoVars, SsoInv, SsoTypeOK, ConfirmationsAreMeant, FormIsAgreed,
                  SettingsAreMeant, UnsafeWasConfirmed, SecretStaysWithTarget,
                  UnsavedEditsStay
<1> QED BY <1>1, <1>2, <1>3, <1>4, <1>5, EditingInv DEF SsoNext

LEMMA SsoInvariant == SsoSpec => []SsoInv
BY SsoInitInv, SsoNextInv, PTL DEF SsoSpec

(* Type correctness of the settings, the cards and the running request.      *)

THEOREM SsoTypeCorrect == SsoSpec => []SsoTypeOK
BY SsoInvariant, PTL DEF SsoInv

(* What is in force was confirmed by somebody who saw that attribute, the    *)
(* secret goes to the server it was entered for, and unsaved edits survive   *)
(* the saves of the other cards (sso.tab.jsx, settings_sso.py): for any      *)
(* attributes, servers and number of saves of other administrators.          *)

THEOREM SsoSettingsAreMeant == SsoSpec => []SettingsAreMeant
BY SsoInvariant, PTL DEF SsoInv

-----------------------------------------------------------------------------
(* The dialog of a rollback.                                               *)

USE RollbackAssumption

RollbackRequests == [kind : {"none", "preview", "rollback"}, force : BOOLEAN, read : BOOLEAN,
             state : Shown, answer : {"none", "ok", "conflict", "error"}]
Dialogs == [open : BOOLEAN, shown : BOOLEAN, state : Shown, force : BOOLEAN,
            message : {"none", "load", "reloaded", "submit"}]

(* A rollback under way was sent with force only from a ticked box, and     *)
(* goes on to write over a conflict only with it.                           *)

ForceIsTicked ==
    /\ rollbackRequest.kind = "rollback" /\ rollbackRequest.force => dialog.force
    /\ rollbackRequest.kind = "rollback" /\ rollbackRequest.read
         /\ rollbackRequest.answer = "none" /\ Conflicts(rollbackRequest.state) # {}
       => rollbackRequest.force

RollbackInv == RollbackTypeOK /\ ForceIsTicked /\ OverwriteWasTicked

-----------------------------------------------------------------------------
LEMMA RollbackTyped ==
    ASSUME RollbackInv
    PROVE  /\ live \in Shown /\ othersWrote \in 0..RollbackOthers
           /\ dialog \in Dialogs /\ rollbackRequest \in RollbackRequests
           /\ written \in [any : BOOLEAN, over : Shown, state : Shown, ticked : BOOLEAN]
BY DEF RollbackInv, RollbackTypeOK, Dialogs, RollbackRequests

LEMMA NothingYet ==
    /\ NoOverview \in Shown /\ NoRollback \in RollbackRequests /\ ClosedDialog \in Dialogs
    /\ NoRollback.kind = "none"
<1>1. NoOverview \in Shown
      BY DEF NoOverview, Shown, States
<1> QED BY <1>1 DEF NoRollback, ClosedDialog, RollbackRequests, Dialogs

LEMMA PreviewType ==
    LET preview == [NoRollback EXCEPT !.kind = "preview"]
    IN preview \in RollbackRequests /\ preview.kind = "preview"
BY NothingYet DEF RollbackRequests

(* Steps of the dialog and of a preview write nothing.                       *)

LEMMA NothingWritten ==
    ASSUME RollbackInv, dialog' \in Dialogs, rollbackRequest' \in RollbackRequests, ForceIsTicked',
           UNCHANGED <<live, othersWrote, written>>
    PROVE  RollbackInv'
<1>1. RollbackTypeOK'
      BY RollbackTyped DEF RollbackTypeOK, Dialogs, RollbackRequests
<1>2. OverwriteWasTicked'
      BY DEF RollbackInv, OverwriteWasTicked
<1> QED BY <1>1, <1>2 DEF RollbackInv

LEMMA DialogInv ==
    ASSUME RollbackInv, OpenDialog \/ CloseDialog \/ RetryPreview
    PROVE  RollbackInv'
<1>1. /\ dialog' \in Dialogs /\ rollbackRequest' \in RollbackRequests
      /\ rollbackRequest'.kind # "rollback"
      /\ UNCHANGED <<live, othersWrote, written>>
  <2>1. CASE OpenDialog
        BY <2>1, NothingYet, PreviewType DEF OpenDialog, Dialogs
  <2>2. CASE CloseDialog
        BY <2>2, NothingYet DEF CloseDialog
  <2>3. CASE RetryPreview
        BY <2>3, RollbackTyped, PreviewType DEF RetryPreview, Dialogs
  <2> QED BY <2>1, <2>2, <2>3
<1> QED BY <1>1, NothingWritten DEF ForceIsTicked

LEMMA PreviewInv ==
    ASSUME RollbackInv, PreviewRead \/ PreviewShown \/ PreviewLost
    PROVE  RollbackInv'
<1>1. /\ dialog' \in Dialogs /\ rollbackRequest' \in RollbackRequests
      /\ rollbackRequest'.kind # "rollback"
      /\ UNCHANGED <<live, othersWrote, written>>
  <2>1. CASE PreviewRead
        BY <2>1, RollbackTyped DEF PreviewRead, RollbackRequests
  <2>2. CASE PreviewShown
        BY <2>2, RollbackTyped, NothingYet DEF PreviewShown, Dialogs, RollbackRequests
  <2>3. CASE PreviewLost
        BY <2>3, RollbackTyped, NothingYet DEF PreviewLost, Dialogs
  <2> QED BY <2>1, <2>2, <2>3
<1> QED BY <1>1, NothingWritten DEF ForceIsTicked

LEMMA TickForceInv ==
    ASSUME RollbackInv, TickForce
    PROVE  RollbackInv'
<1>1. /\ rollbackRequest = NoRollback /\ rollbackRequest' = rollbackRequest
      /\ dialog' = [dialog EXCEPT !.force = ~@]
      /\ UNCHANGED <<live, othersWrote, written>>
      BY DEF TickForce, Usable
<1>2. dialog' \in Dialogs
      BY <1>1, RollbackTyped DEF Dialogs
<1> QED BY <1>1, <1>2, RollbackTyped, NothingYet, NothingWritten DEF ForceIsTicked

LEMMA ConfirmInv ==
    ASSUME RollbackInv, Confirm
    PROVE  RollbackInv'
<1> DEFINE request == [NoRollback EXCEPT !.kind = "rollback", !.force = SentForce]
<1>1. /\ rollbackRequest' = request /\ dialog' = [dialog EXCEPT !.message = "none"]
      /\ UNCHANGED <<live, othersWrote, written>>
      BY DEF Confirm
<1>2. SentForce \in BOOLEAN /\ (SentForce => dialog.force)
      BY RollbackTyped DEF SentForce, Dialogs
<1>3. /\ request \in RollbackRequests /\ request.kind = "rollback" /\ request.read = FALSE
      /\ request.force = SentForce
      BY <1>2, NothingYet DEF RollbackRequests, NoRollback
<1> HIDE DEF request
<1>4. dialog' \in Dialogs /\ dialog'.force = dialog.force
      BY <1>1, RollbackTyped DEF Dialogs
<1>5. ForceIsTicked'
      BY <1>1, <1>2, <1>3, <1>4 DEF ForceIsTicked
<1> QED BY <1>1, <1>3, <1>4, <1>5, NothingWritten

-----------------------------------------------------------------------------
(* The handler.                                                              *)

LEMMA RollbackReadsInv ==
    ASSUME RollbackInv, RollbackReads
    PROVE  RollbackInv'
<1> DEFINE answer == IF RollbackRefused(rollbackRequest.force) THEN "conflict"
                     ELSE IF Writes(live) = {} THEN "ok" ELSE rollbackRequest.answer
<1>1. /\ rollbackRequest.kind = "rollback"
      /\ rollbackRequest' = [rollbackRequest EXCEPT !.read = TRUE, !.state = live,
                                                    !.answer = answer]
      /\ UNCHANGED <<live, othersWrote, dialog, written>>
      BY DEF RollbackReads
<1>2. answer \in {"none", "ok", "conflict", "error"}
      BY RollbackTyped DEF RollbackRequests
<1>3. answer = "none" /\ Conflicts(live) # {} => rollbackRequest.force
      BY DEF RollbackRefused
<1> HIDE DEF answer
<1>4. /\ rollbackRequest' \in RollbackRequests
      /\ rollbackRequest'.force = rollbackRequest.force
      /\ rollbackRequest'.state = live /\ rollbackRequest'.answer = answer
      BY <1>1, <1>2, RollbackTyped DEF RollbackRequests
<1>5. ForceIsTicked'
  <2>1. Conflicts(rollbackRequest'.state) = Conflicts(live)
        BY <1>4
  <2>2. rollbackRequest.force => dialog.force
        BY <1>1 DEF RollbackInv, ForceIsTicked
  <2>3. Conflicts(rollbackRequest.state)' = Conflicts(rollbackRequest'.state)
        BY DEF Conflicts
  <2> QED BY <1>1, <1>3, <1>4, <2>1, <2>2, <2>3 DEF ForceIsTicked
<1> QED BY <1>1, <1>4, <1>5, RollbackTyped, NothingWritten

LEMMA RollbackWritesInv ==
    ASSUME RollbackInv, RollbackWrites
    PROVE  RollbackInv'
<1>1. /\ rollbackRequest.kind = "rollback" /\ rollbackRequest.read
      /\ rollbackRequest.answer = "none"
      /\ rollbackRequest' = [rollbackRequest EXCEPT !.answer = "ok"]
      /\ live' = [r \in RRsets |-> IF r \in Writes(rollbackRequest.state) THEN "before"
                                  ELSE live[r]]
      /\ written' = [any |-> TRUE, over |-> rollbackRequest.state, state |-> dialog.state,
                     ticked |-> dialog.force]
      /\ UNCHANGED <<othersWrote, dialog>>
      BY DEF RollbackWrites
<1>2. /\ rollbackRequest' \in RollbackRequests /\ rollbackRequest'.answer = "ok"
      /\ rollbackRequest'.force = rollbackRequest.force
      BY <1>1, RollbackTyped DEF RollbackRequests
<1>3. live' \in Shown
      BY <1>1, RollbackTyped DEF Shown, States
<1>4. /\ written' \in [any : BOOLEAN, over : Shown, state : Shown, ticked : BOOLEAN]
      /\ written'.over = rollbackRequest.state /\ written'.ticked = dialog.force
      BY <1>1, RollbackTyped DEF Dialogs, RollbackRequests
<1>5. RollbackTypeOK'
      BY <1>1, <1>2, <1>3, <1>4, RollbackTyped DEF RollbackTypeOK, RollbackRequests, Dialogs
<1>6. ForceIsTicked'
      BY <1>1, <1>2 DEF RollbackInv, ForceIsTicked
<1>7. OverwriteWasTicked'
  <2>1. (\E r \in RRsets : rollbackRequest.state[r] = "other") => dialog.force
        BY <1>1 DEF RollbackInv, ForceIsTicked, Conflicts
  <2> QED BY <1>4, <2>1 DEF OverwriteWasTicked
<1> QED BY <1>5, <1>6, <1>7 DEF RollbackInv

LEMMA RollbackErrorInv ==
    ASSUME RollbackInv, RollbackError
    PROVE  RollbackInv'
<1>1. /\ rollbackRequest' = [rollbackRequest EXCEPT !.answer = "error"]
      /\ UNCHANGED <<live, othersWrote, dialog, written>>
      BY DEF RollbackError
<1>2. /\ rollbackRequest' \in RollbackRequests /\ rollbackRequest'.answer = "error"
      /\ rollbackRequest'.kind = rollbackRequest.kind
      /\ rollbackRequest'.force = rollbackRequest.force
      BY <1>1, RollbackTyped DEF RollbackRequests
<1>3. ForceIsTicked'
      BY <1>1, <1>2 DEF RollbackInv, ForceIsTicked
<1> QED BY <1>1, <1>2, <1>3, RollbackTyped, NothingWritten

LEMMA RollbackAnsweredInv ==
    ASSUME RollbackInv, RollbackAnswered
    PROVE  RollbackInv'
<1>1. /\ dialog' \in Dialogs /\ rollbackRequest' \in RollbackRequests
      /\ rollbackRequest'.kind # "rollback"
  <2>1. CASE rollbackRequest.answer = "ok"
        BY <2>1, NothingYet DEF RollbackAnswered
  <2>2. CASE rollbackRequest.answer = "error"
    <3>1. dialog' = [dialog EXCEPT !.message = "submit"] /\ rollbackRequest' = NoRollback
          BY <2>2 DEF RollbackAnswered
    <3> QED BY <3>1, NothingYet, RollbackTyped DEF Dialogs
  <2>3. CASE rollbackRequest.answer = "conflict"
    <3>1. /\ dialog' = [dialog EXCEPT !.message = "reloaded"]
          /\ rollbackRequest' = [NoRollback EXCEPT !.kind = "preview"]
          BY <2>3 DEF RollbackAnswered
    <3> QED BY <3>1, PreviewType, RollbackTyped DEF Dialogs
  <2>4. rollbackRequest.answer \in {"ok", "conflict", "error"}
        BY RollbackTyped DEF RollbackAnswered, RollbackRequests
  <2> QED BY <2>1, <2>2, <2>3, <2>4
<1>2. UNCHANGED <<live, othersWrote, written>>
      BY DEF RollbackAnswered
<1> QED BY <1>1, <1>2, NothingWritten DEF ForceIsTicked

LEMMA OthersWriteInv ==
    ASSUME RollbackInv, NEW r \in RRsets, NEW s \in States, OthersWrite(r, s)
    PROVE  RollbackInv'
<1>1. /\ othersWrote < RollbackOthers /\ othersWrote' = othersWrote + 1
      /\ live' = [live EXCEPT ![r] = s]
      /\ UNCHANGED <<dialog, rollbackRequest, written>>
      BY DEF OthersWrite
<1>2. othersWrote' \in 0..RollbackOthers
  <2>1. othersWrote \in 0..RollbackOthers
        BY RollbackTyped
  <2> QED BY <1>1, <2>1
<1>3. live' \in Shown
      BY <1>1, RollbackTyped DEF Shown
<1>4. RollbackTypeOK'
      BY <1>1, <1>2, <1>3, RollbackTyped DEF RollbackTypeOK, RollbackRequests, Dialogs
<1>5. ForceIsTicked' /\ OverwriteWasTicked'
      BY <1>1 DEF RollbackInv, ForceIsTicked, Conflicts, OverwriteWasTicked
<1> QED BY <1>4, <1>5 DEF RollbackInv

-----------------------------------------------------------------------------
LEMMA RollbackInitInv == RollbackInit => RollbackInv
<1> SUFFICES ASSUME RollbackInit PROVE RollbackInv
    OBVIOUS
<1>1. RollbackTypeOK
      BY NothingYet DEF RollbackInit, RollbackTypeOK, RollbackRequests, Dialogs
<1>2. ForceIsTicked /\ OverwriteWasTicked
      BY NothingYet DEF RollbackInit, ForceIsTicked, OverwriteWasTicked
<1> QED BY <1>1, <1>2 DEF RollbackInv

LEMMA RollbackNextInv == RollbackInv /\ [RollbackNext]_rollbackVars => RollbackInv'
<1> SUFFICES ASSUME RollbackInv, [RollbackNext]_rollbackVars
             PROVE  RollbackInv'
    OBVIOUS
<1>1. CASE OpenDialog \/ CloseDialog \/ RetryPreview
      BY <1>1, DialogInv
<1>2. CASE PreviewRead \/ PreviewShown \/ PreviewLost
      BY <1>2, PreviewInv
<1>3. CASE TickForce \/ Confirm
      BY <1>3, TickForceInv, ConfirmInv
<1>4. CASE RollbackReads \/ RollbackWrites
      BY <1>4, RollbackReadsInv, RollbackWritesInv
<1>5. CASE RollbackError \/ RollbackAnswered
      BY <1>5, RollbackErrorInv, RollbackAnsweredInv
<1>6. ASSUME NEW r \in RRsets, NEW s \in States, OthersWrite(r, s)
      PROVE  RollbackInv'
      BY <1>6, OthersWriteInv
<1>7. CASE UNCHANGED rollbackVars
      BY <1>7 DEF rollbackVars, RollbackInv, RollbackTypeOK, ForceIsTicked, Conflicts,
                  OverwriteWasTicked
<1> QED BY <1>1, <1>2, <1>3, <1>4, <1>5, <1>6, <1>7 DEF RollbackNext

LEMMA RollbackInvariant == RollbackSpec => []RollbackInv
BY RollbackInitInv, RollbackNextInv, PTL DEF RollbackSpec

(* Type correctness of the dialog, its request and the RRsets.               *)

THEOREM RollbackTypeCorrect == RollbackSpec => []RollbackTypeOK
BY RollbackInvariant, PTL DEF RollbackInv

(* A rollback writes over a state the entry did not leave only if the user   *)
(* ticked the box beside the conflicts of a preview (rollback_change,         *)
(* RollbackModal): for any RRsets and whatever others write meanwhile.       *)

THEOREM NoOverwriteUnticked == RollbackSpec => []OverwriteWasTicked
BY RollbackInvariant, PTL DEF RollbackInv

-----------------------------------------------------------------------------
(* A list of requests without the i-th of them.                             *)

LEMMA WithoutRequest ==
    ASSUME NEW S, NEW s \in Seq(S), NEW i \in 1..Len(s)
    PROVE  LET t == SubSeq(s, 1, i - 1) \o SubSeq(s, i + 1, Len(s))
           IN  /\ t \in Seq(S) /\ Len(t) = Len(s) - 1
               /\ \A j \in 1..Len(s) - 1 : t[j] = IF j < i THEN s[j] ELSE s[j + 1]
<1> DEFINE a == SubSeq(s, 1, i - 1)
           b == SubSeq(s, i + 1, Len(s))
<1>1. Len(s) \in Nat /\ i \in Nat /\ i >= 1 /\ i <= Len(s)
      OBVIOUS
<1>2. /\ a \in Seq(S) /\ Len(a) = i - 1
      /\ \A j \in 1..i - 1 : a[j] = s[j]
  <2>1. \A j \in 1..i - 1 : s[j] \in S
        BY <1>1
  <2>2. /\ a \in Seq(S) /\ Len(a) = IF 1 <= i - 1 THEN (i - 1) - 1 + 1 ELSE 0
        /\ \A j \in 1 .. (i - 1) - 1 + 1 : a[j] = s[1 + j - 1]
        BY <1>1, <2>1, SubSeqProperties
  <2> QED BY <1>1, <2>2
<1>3. /\ b \in Seq(S) /\ Len(b) = Len(s) - i
      /\ \A j \in 1..Len(s) - i : b[j] = s[i + j]
  <2>1. \A j \in i + 1 .. Len(s) : s[j] \in S
        BY <1>1
  <2>2. /\ b \in Seq(S) /\ Len(b) = IF i + 1 <= Len(s) THEN Len(s) - (i + 1) + 1 ELSE 0
        /\ \A j \in 1 .. Len(s) - (i + 1) + 1 : b[j] = s[(i + 1) + j - 1]
        BY <1>1, <2>1, SubSeqProperties
  <2> QED BY <1>1, <2>2
<1> HIDE DEF a, b
<1>4. /\ a \o b \in Seq(S) /\ Len(a \o b) = Len(a) + Len(b)
      /\ \A j \in 1 .. Len(a) + Len(b) : (a \o b)[j] = IF j <= Len(a) THEN a[j]
                                                      ELSE b[j - Len(a)]
      BY <1>2, <1>3, ConcatProperties
<1>5. Len(a \o b) = Len(s) - 1
      BY <1>1, <1>2, <1>3, <1>4
<1>6. ASSUME NEW j \in 1..Len(s) - 1
      PROVE  (a \o b)[j] = IF j < i THEN s[j] ELSE s[j + 1]
  <2>1. CASE j < i
        BY <1>1, <1>2, <1>3, <1>4, <2>1
  <2>2. CASE ~(j < i)
    <3> DEFINE n == Len(s)
               k == j - (i - 1)
    <3>1. Len(a) = i - 1 /\ j \in Nat /\ j <= n - 1 /\ n \in Nat /\ i \in Nat
          BY <1>1, <1>2
    <3>2. k \in 1..n - i /\ ~(j <= i - 1) /\ i + k = j + 1
          BY <3>1, <2>2
    <3>3. j \in 1 .. Len(a) + Len(b)
          BY <1>1, <1>2, <1>3
    <3>4. (a \o b)[j] = b[k]
          BY <1>4, <3>1, <3>2, <3>3
    <3>5. b[k] = s[i + k]
          BY <1>3, <3>2
    <3>6. ~(j < i)
          BY <2>2, <3>1
    <3> HIDE DEF k
    <3>7. (a \o b)[j] = s[j + 1]
          BY <3>2, <3>4, <3>5
    <3> QED BY <3>6, <3>7
  <2> QED BY <2>1, <2>2
<1> QED BY <1>4, <1>5, <1>6 DEF a, b

(* The list with every request changed in its place.                        *)

LEMMA ChangedInPlace ==
    ASSUME NEW S, NEW T, NEW s \in Seq(S), NEW f \in [DOMAIN s -> T]
    PROVE  f \in Seq(T) /\ Len(f) = Len(s)
<1>1. Len(s) \in Nat /\ DOMAIN s = 1..Len(s)
      BY LenProperties
<1>2. f \in [1..Len(s) -> T] /\ f \in Seq(T)
      BY <1>1, SeqDef
<1>3. Len(f) \in Nat /\ DOMAIN f = 1..Len(f)
      BY <1>2, LenProperties
<1>4. 1..Len(f) = 1..Len(s)
      BY <1>1, <1>2, <1>3
<1>5. Len(f) <= Len(s)
  <2>1. Len(f) = 0 \/ Len(f) \in 1..Len(f)
        BY <1>3
  <2> QED BY <1>1, <1>3, <1>4, <2>1
<1>6. Len(s) <= Len(f)
  <2>1. Len(s) = 0 \/ Len(s) \in 1..Len(s)
        BY <1>1
  <2> QED BY <1>1, <1>3, <1>4, <2>1
<1> QED BY <1>1, <1>2, <1>3, <1>5, <1>6

-----------------------------------------------------------------------------
(* ZoneEditor: while the load started last is on the way it is one that was *)
(* started after the page's last write.                                     *)

ZoneLoadType == [silent : BOOLEAN, read : BOOLEAN, got : SUBSET Vals, own : BOOLEAN]

LastIsOwn == current => zoneLoads # <<>> /\ zoneLoads[Len(zoneLoads)].own

ZoneInv == ZoneTypeOK /\ zoneLoads \in Seq(ZoneLoadType) /\ LastIsOwn /\ OwnWritesAreTold

PageType == [records : SUBSET Vals, loading : BOOLEAN, mayEdit : BOOLEAN,
             failed : BOOLEAN, own : BOOLEAN]
BannerType == [error : {"none", "load", "write", "peer"}, warning : SUBSET {"unloaded", "ptr"}]
FormType == [open : BOOLEAN, edits : SUBSET Vals, typed : SUBSET Vals, fit : BOOLEAN]

LEMMA ZoneTyped ==
    ASSUME ZoneInv
    PROVE  /\ zoneLoads \in Seq(ZoneLoadType) /\ Len(zoneLoads) \in Nat
           /\ DOMAIN zoneLoads = 1..Len(zoneLoads)
           /\ \A i \in DOMAIN zoneLoads : zoneLoads[i] \in ZoneLoadType
           /\ page \in PageType /\ banner \in BannerType /\ form \in FormType
           /\ told \subseteq {"peer", "unloaded", "ptr"}
           /\ told \subseteq banner.warning \cup {banner.error}
           /\ zone \subseteq Vals /\ deleting \subseteq Vals
           /\ writing \in [kind : {"none", "create", "update"}, old : SUBSET Vals, new : SUBSET Vals]
BY DEF ZoneInv, ZoneTypeOK, ZoneLoadType, PageType, BannerType, FormType, OwnWritesAreTold,
       OutcomeIsShown

(* The loads stay; the page and its banners may change.                     *)

LEMMA LoadsKept ==
    ASSUME ZoneInv, UNCHANGED <<zoneLoads, current, page>>,
           zone' \subseteq Vals, others' \in 0..ZoneOthers,
           banner' \in BannerType, told' \subseteq {"peer", "unloaded", "ptr"},
           told' \subseteq banner'.warning \cup {banner'.error},
           form' \in FormType, deleting' \subseteq Vals,
           writing' \in [kind : {"none", "create", "update"}, old : SUBSET Vals, new : SUBSET Vals]
    PROVE  ZoneInv'
BY DEF ZoneInv, ZoneTypeOK, LastIsOwn, OwnWritesAreTold, OwnWriteIsShown, OutcomeIsShown,
       BannerType, FormType

(* A newer complaint takes the red slot only.                               *)

LEMMA ComplainTold ==
    ASSUME ZoneInv, NEW what \in {"load", "write"}, Complain(what)
    PROVE  /\ banner' \in BannerType /\ told' \subseteq {"peer", "unloaded", "ptr"}
           /\ told' \subseteq banner'.warning \cup {banner'.error}
<1>1. /\ banner \in BannerType /\ told \subseteq {"peer", "unloaded", "ptr"}
      /\ told \subseteq banner.warning \cup {banner.error}
      BY ZoneTyped
<1>2. /\ banner' \in BannerType /\ banner'.warning = banner.warning
      /\ told' = told \ {"peer"}
      BY <1>1 DEF Complain, BannerType
<1>3. told \ {"peer"} \subseteq banner.warning
      BY <1>1 DEF BannerType
<1> QED BY <1>1, <1>2, <1>3

LEMMA ReportTold ==
    ASSUME ZoneInv, NEW out \in Outcomes, Report(out)
    PROVE  /\ banner' \in BannerType /\ told' \subseteq {"peer", "unloaded", "ptr"}
           /\ told' \subseteq banner'.warning \cup {banner'.error}
<1>1. /\ banner.error \in {"none", "load", "write", "peer"}
      /\ Warning(out) \subseteq {"unloaded", "ptr"}
      BY ZoneTyped DEF BannerType, Warning
<1>2. /\ banner' \in BannerType /\ banner'.warning = Warning(out)
      /\ banner'.error = IF out.peers = "error" THEN "peer" ELSE banner.error
      BY <1>1 DEF Report, BannerType
<1>3. ASSUME NEW w \in told'
      PROVE  w \in {"peer", "unloaded", "ptr"} /\ w \in Warning(out) \cup {banner'.error}
      BY <1>2, <1>3 DEF Report, Warning
<1> QED BY <1>2, <1>3

LEMMA CloseBannerInv ==
    ASSUME ZoneInv, NEW slot \in {"error", "warning"}, CloseBanner(slot)
    PROVE  ZoneInv'
<1>1. /\ banner \in BannerType /\ told \subseteq {"peer", "unloaded", "ptr"}
      /\ told \subseteq banner.warning \cup {banner.error}
      /\ form \in FormType
      BY ZoneTyped
<1>2. /\ banner' \in BannerType /\ told' \subseteq {"peer", "unloaded", "ptr"}
      /\ told' \subseteq banner'.warning \cup {banner'.error}
  <2>1. CASE slot = "error"
        BY <1>1, <2>1 DEF CloseBanner, BannerType
  <2>2. CASE slot = "warning"
        BY <1>1, <2>2 DEF CloseBanner, BannerType
  <2> QED BY <2>1, <2>2
<1> QED BY <1>2, ZoneTyped, LoadsKept DEF CloseBanner, ZoneInv, ZoneTypeOK

LEMMA ServerReadsInv ==
    ASSUME ZoneInv, NEW i \in DOMAIN zoneLoads, ServerReads(i)
    PROVE  ZoneInv'
<1> DEFINE load == [zoneLoads[i] EXCEPT !.read = TRUE, !.got = zone]
<1>1. /\ zoneLoads[i] \in ZoneLoadType /\ zone \subseteq Vals /\ i \in 1..Len(zoneLoads)
      BY ZoneTyped
<1>2. load \in ZoneLoadType /\ load.own = zoneLoads[i].own
      BY <1>1 DEF ZoneLoadType
<1>3. zoneLoads' = [zoneLoads EXCEPT ![i] = load]
      BY <1>1, ZoneTyped DEF ServerReads
<1> HIDE DEF load
<1>4. /\ zoneLoads' \in Seq(ZoneLoadType) /\ Len(zoneLoads') = Len(zoneLoads)
      /\ \A j \in 1..Len(zoneLoads) : zoneLoads'[j] = IF j = i THEN load ELSE zoneLoads[j]
      BY <1>1, <1>2, <1>3, ZoneTyped, ExceptSeq
<1>5. LastIsOwn'
  <2> SUFFICES ASSUME current PROVE zoneLoads' # <<>> /\ zoneLoads'[Len(zoneLoads')].own
      BY DEF LastIsOwn, ServerReads
  <2>1. Len(zoneLoads) \in 1..Len(zoneLoads) /\ zoneLoads[Len(zoneLoads)].own
        BY <1>1, ZoneTyped DEF ZoneInv, LastIsOwn
  <2> QED BY <1>2, <1>4, <2>1
<1>6. \A j \in DOMAIN zoneLoads' : zoneLoads'[j] \in ZoneLoadType
      BY <1>4
<1> QED BY <1>4, <1>5, <1>6
        DEF ServerReads, ZoneInv, ZoneTypeOK, OwnWritesAreTold, OwnWriteIsShown, OutcomeIsShown,
            ZoneLoadType

(* A load that has ended is gone; when another is the last one it was the   *)
(* last one before.                                                         *)

LEMMA LoadEnds ==
    ASSUME ZoneInv, NEW i \in DOMAIN zoneLoads, zoneLoads' = WithoutRRset(zoneLoads, i),
           current' = (current /\ i # Len(zoneLoads))
    PROVE  /\ zoneLoads' \in Seq(ZoneLoadType) /\ LastIsOwn' /\ current' \in BOOLEAN
           /\ \A j \in DOMAIN zoneLoads' : zoneLoads'[j] \in ZoneLoadType
           /\ Len(zoneLoads') <= LoadBound
<1>1. i \in 1..Len(zoneLoads) /\ Len(zoneLoads) \in Nat
      BY ZoneTyped
<1>2. /\ zoneLoads' \in Seq(ZoneLoadType) /\ Len(zoneLoads') = Len(zoneLoads) - 1
      /\ \A j \in 1..Len(zoneLoads) - 1 : zoneLoads'[j] = IF j < i THEN zoneLoads[j]
                                                          ELSE zoneLoads[j + 1]
  <2>1. zoneLoads' = SubSeq(zoneLoads, 1, i - 1) \o SubSeq(zoneLoads, i + 1, Len(zoneLoads))
        BY DEF WithoutRRset
  <2>2. zoneLoads \in Seq(ZoneLoadType)
        BY ZoneTyped
  <2> DEFINE rest == SubSeq(zoneLoads, 1, i - 1) \o SubSeq(zoneLoads, i + 1, Len(zoneLoads))
  <2>3. /\ rest \in Seq(ZoneLoadType) /\ Len(rest) = Len(zoneLoads) - 1
        /\ \A j \in 1..Len(zoneLoads) - 1 : rest[j] = IF j < i THEN zoneLoads[j]
                                                      ELSE zoneLoads[j + 1]
        BY <1>1, <2>2, WithoutRequest
  <2> HIDE DEF rest
  <2>4. zoneLoads' = rest
        BY <2>1 DEF rest
  <2> QED BY <2>3, <2>4
<1>3. ASSUME current' PROVE zoneLoads' # <<>> /\ zoneLoads'[Len(zoneLoads')].own
  <2> DEFINE k == Len(zoneLoads) - 1
  <2>1. current /\ i # Len(zoneLoads) /\ zoneLoads[Len(zoneLoads)].own
        BY <1>3 DEF ZoneInv, LastIsOwn
  <2>2. k \in 1..Len(zoneLoads) - 1 /\ ~(k < i) /\ k + 1 = Len(zoneLoads)
        BY <1>1, <2>1
  <2>3. zoneLoads'[k] = zoneLoads[Len(zoneLoads)] /\ Len(zoneLoads') = k
        BY <1>2, <2>2
  <2> QED BY <1>2, <2>1, <2>2, <2>3
<1>4. Len(zoneLoads') <= LoadBound
      BY <1>1, <1>2, ZoneAssumption DEF ZoneInv, ZoneTypeOK
<1> QED BY <1>2, <1>3, <1>4 DEF LastIsOwn

LEMMA LoadArrivesInv ==
    ASSUME ZoneInv, NEW i \in DOMAIN zoneLoads, LoadArrives(i)
    PROVE  ZoneInv'
<1>1. /\ zoneLoads' \in Seq(ZoneLoadType) /\ LastIsOwn' /\ current' \in BOOLEAN
      /\ \A j \in DOMAIN zoneLoads' : zoneLoads'[j] \in ZoneLoadType
      /\ Len(zoneLoads') <= LoadBound
      BY LoadEnds DEF LoadArrives
<1>2. zoneLoads[i] \in ZoneLoadType /\ page \in PageType
      BY ZoneTyped
<1>3. page' \in PageType /\ OwnWriteIsShown'
  <2>1. CASE Newest(i)
    <3>1. page' \in PageType /\ page'.own = zoneLoads[i].own
          BY <1>2, <2>1 DEF LoadArrives, ZoneLoadType, PageType
    <3>2. zoneLoads[i].own
          BY <2>1 DEF Newest, ZoneInv, LastIsOwn
    <3> QED BY <3>1, <3>2 DEF OwnWriteIsShown
  <2>2. CASE ~Newest(i)
    <3>1. page' = page /\ current' = current
          BY <2>2 DEF LoadArrives, Newest, ZoneInv, ZoneTypeOK
    <3> QED BY <1>2, <3>1 DEF ZoneInv, OwnWritesAreTold, OwnWriteIsShown
  <2> QED BY <2>1, <2>2
<1> QED BY <1>1, <1>3
        DEF LoadArrives, ZoneInv, ZoneTypeOK, OwnWritesAreTold, OutcomeIsShown, PageType,
            ZoneLoadType

LEMMA LoadFailsInv ==
    ASSUME ZoneInv, NEW i \in DOMAIN zoneLoads, LoadFails(i)
    PROVE  ZoneInv'
<1>1. /\ zoneLoads' \in Seq(ZoneLoadType) /\ LastIsOwn' /\ current' \in BOOLEAN
      /\ \A j \in DOMAIN zoneLoads' : zoneLoads'[j] \in ZoneLoadType
      /\ Len(zoneLoads') <= LoadBound
      BY LoadEnds DEF LoadFails
<1>2. page \in PageType
      BY ZoneTyped
<1>3. /\ page' \in PageType /\ OwnWriteIsShown'
      /\ banner' \in BannerType /\ told' \subseteq {"peer", "unloaded", "ptr"}
      /\ told' \subseteq banner'.warning \cup {banner'.error}
  <2>1. CASE Newest(i)
    <3>1. page' \in PageType /\ page'.failed
          BY <1>2, <2>1 DEF LoadFails, PageType
    <3>2. Complain("load")
          BY <2>1 DEF LoadFails
    <3> QED BY <3>1, <3>2, ComplainTold DEF OwnWriteIsShown
  <2>2. CASE ~Newest(i)
    <3>1. page' = page /\ current' = current /\ banner' = banner /\ told' = told
          BY <2>2 DEF LoadFails, Newest, ZoneInv, ZoneTypeOK
    <3> QED BY <1>2, <3>1, ZoneTyped DEF ZoneInv, OwnWritesAreTold, OwnWriteIsShown
  <2> QED BY <2>1, <2>2
<1> QED BY <1>1, <1>3
        DEF LoadFails, ZoneInv, ZoneTypeOK, OwnWritesAreTold, OutcomeIsShown, PageType, BannerType,
            ZoneLoadType

(* The form and the bin leave loads and banners alone.                      *)

LEMMA FormKept ==
    ASSUME ZoneInv, UNCHANGED <<zone, others, page, banner, told, zoneLoads, current>>,
           form' \in FormType, deleting' \subseteq Vals,
           writing' \in [kind : {"none", "create", "update"}, old : SUBSET Vals, new : SUBSET Vals]
    PROVE  ZoneInv'
BY ZoneTyped, LoadsKept DEF ZoneInv, ZoneTypeOK

LEMMA NoFormType ==
    /\ NoForm \in FormType
    /\ NoSave \in [kind : {"none", "create", "update"}, old : SUBSET Vals, new : SUBSET Vals]
BY DEF NoForm, FormType, NoSave

LEMMA ZoneFormInv ==
    ASSUME ZoneInv,
           \/ \E v \in Vals : OpenForm({v}) \/ AddValue(v) \/ ChangeType({v}) \/ Delete(v)
           \/ \E v \in Vals, fit \in BOOLEAN : TypeValue(v, fit)
           \/ OpenForm({}) \/ ChangeType({}) \/ CloseForm \/ SubmitForm \/ SaveFails
    PROVE  ZoneInv'
<1>1. /\ form \in FormType /\ deleting \subseteq Vals
      /\ writing \in [kind : {"none", "create", "update"}, old : SUBSET Vals, new : SUBSET Vals]
      BY ZoneTyped
<1>2. ASSUME NEW old \in SUBSET Vals, OpenForm(old) \/ ChangeType(old) PROVE ZoneInv'
  <2>1. CASE OpenForm(old)
    <3>1. form' \in FormType
          BY <1>2, <2>1 DEF OpenForm, FormType
    <3> QED BY <1>1, <2>1, <3>1, FormKept DEF OpenForm
  <2>2. CASE ChangeType(old)
    <3>1. form' \in FormType
          BY <1>1, <1>2, <2>2 DEF ChangeType, FormType
    <3> QED BY <1>1, <2>2, <3>1, FormKept DEF ChangeType
  <2> QED BY <1>2, <2>1, <2>2
<1>3. ASSUME NEW v \in Vals, AddValue(v) PROVE ZoneInv'
  <2>1. form' \in FormType
        BY <1>1, <1>3 DEF AddValue, FormType
  <2> QED BY <1>1, <1>3, <2>1, FormKept DEF AddValue
<1>4. ASSUME NEW v \in Vals, NEW fit \in BOOLEAN, TypeValue(v, fit) PROVE ZoneInv'
  <2>1. form' \in FormType
        BY <1>1, <1>4 DEF TypeValue, FormType
  <2> QED BY <1>1, <1>4, <2>1, FormKept DEF TypeValue
<1>5. ASSUME NEW v \in Vals, Delete(v) PROVE ZoneInv'
      BY <1>1, <1>5, FormKept DEF Delete
<1>6. CASE CloseForm
      BY <1>1, <1>6, FormKept, NoFormType DEF CloseForm
<1>7. CASE SubmitForm
  <2>1. writing' \in [kind : {"none", "create", "update"}, old : SUBSET Vals, new : SUBSET Vals]
        BY <1>1, <1>7 DEF SubmitForm, FormType
  <2> QED BY <1>1, <1>7, <2>1, FormKept DEF SubmitForm
<1>8. CASE SaveFails
  <2>1. writing' = NoSave
        BY <1>8 DEF SaveFails
  <2>2. writing' \in [kind : {"none", "create", "update"}, old : SUBSET Vals, new : SUBSET Vals]
        BY <2>1, NoFormType
  <2> QED BY <1>1, <1>8, <2>2, FormKept DEF SaveFails
<1>9. CASE \E v \in Vals : OpenForm({v}) \/ AddValue(v) \/ ChangeType({v}) \/ Delete(v)
  <2>1. PICK v \in Vals : OpenForm({v}) \/ AddValue(v) \/ ChangeType({v}) \/ Delete(v)
        BY <1>9
  <2>2. {v} \in SUBSET Vals
        OBVIOUS
  <2>3. CASE OpenForm({v}) \/ ChangeType({v})
        BY <1>2, <2>2, <2>3
  <2>4. CASE AddValue(v) \/ Delete(v)
        BY <1>3, <1>5, <2>4
  <2> QED BY <2>1, <2>3, <2>4
<1>10. CASE OpenForm({}) \/ ChangeType({})
  <2>1. {} \in SUBSET Vals
        OBVIOUS
  <2> QED BY <1>2, <1>10, <2>1
<1>11. CASE \E v \in Vals, fit \in BOOLEAN : TypeValue(v, fit)
       BY <1>4, <1>11
<1> QED BY <1>6, <1>7, <1>8, <1>9, <1>10, <1>11

(* A write that succeeded is told, and read again.                          *)

LEMMA OwnLoads ==
    ASSUME ZoneInv, Own(FALSE), page' = Reloading(FALSE)
    PROVE  /\ zoneLoads' \in Seq(ZoneLoadType) /\ LastIsOwn' /\ current' = TRUE
           /\ \A j \in DOMAIN zoneLoads' : zoneLoads'[j] \in ZoneLoadType
           /\ Len(zoneLoads') <= LoadBound /\ page' \in PageType
<1> DEFINE old == [i \in DOMAIN zoneLoads |-> [zoneLoads[i] EXCEPT !.own = FALSE]]
<1>1. \A i \in DOMAIN zoneLoads : [zoneLoads[i] EXCEPT !.own = FALSE] \in ZoneLoadType
      BY ZoneTyped DEF ZoneLoadType
<1>2. old \in [DOMAIN zoneLoads -> ZoneLoadType]
      BY <1>1
<1> HIDE DEF old
<1>3. old \in Seq(ZoneLoadType) /\ Len(old) = Len(zoneLoads)
      BY <1>2, ZoneTyped, ChangedInPlace
<1>4. NewLoad(FALSE) \in ZoneLoadType /\ NewLoad(FALSE).own = TRUE
      BY DEF NewLoad, ZoneLoadType
<1>5. zoneLoads' = Append(old, NewLoad(FALSE)) /\ current' = TRUE /\ Len(zoneLoads) < LoadBound
      BY DEF Own, old
<1>6. /\ zoneLoads' \in Seq(ZoneLoadType) /\ zoneLoads' # <<>>
      /\ Len(zoneLoads') = Len(zoneLoads) + 1
      /\ zoneLoads'[Len(zoneLoads) + 1] = NewLoad(FALSE)
  <2> DEFINE grown == Append(old, NewLoad(FALSE))
  <2>1. /\ grown \in Seq(ZoneLoadType) /\ grown # <<>> /\ Len(grown) = Len(old) + 1
        /\ grown[Len(old) + 1] = NewLoad(FALSE)
        BY <1>3, <1>4, AppendProperties
  <2> HIDE DEF grown
  <2>2. zoneLoads' = grown
        BY <1>5 DEF grown
  <2> QED BY <1>3, <2>1, <2>2
<1>7. Len(zoneLoads') <= LoadBound
  <2>1. Len(zoneLoads) \in Nat /\ LoadBound \in Nat
        BY ZoneTyped, ZoneAssumption
  <2> QED BY <1>5, <1>6, <2>1
<1>8. page' \in PageType
  <2>1. page \in PageType
        BY ZoneTyped
  <2>2. page' = [page EXCEPT !.own = FALSE, !.loading = TRUE]
        BY <2>1 DEF Reloading, PageType
  <2> QED BY <2>1, <2>2 DEF PageType
<1>9. LastIsOwn'
      BY <1>4, <1>6 DEF LastIsOwn
<1>10. \A j \in DOMAIN zoneLoads' : zoneLoads'[j] \in ZoneLoadType
       BY <1>6
<1> QED BY <1>5, <1>6, <1>7, <1>8, <1>9, <1>10

LEMMA WriteSucceedsInv ==
    ASSUME ZoneInv, NEW out \in Outcomes, SaveSucceeds(out) \/ DeleteSucceeds(out)
    PROVE  ZoneInv'
<1>1. Report(out) /\ Own(FALSE) /\ page' = Reloading(FALSE) /\ UNCHANGED others
      BY DEF SaveSucceeds, DeleteSucceeds
<1>2. /\ banner' \in BannerType /\ told' \subseteq {"peer", "unloaded", "ptr"}
      /\ told' \subseteq banner'.warning \cup {banner'.error}
      BY <1>1, ReportTold
<1>3. /\ zoneLoads' \in Seq(ZoneLoadType) /\ LastIsOwn' /\ current' = TRUE
      /\ \A j \in DOMAIN zoneLoads' : zoneLoads'[j] \in ZoneLoadType
      /\ Len(zoneLoads') <= LoadBound /\ page' \in PageType
      BY <1>1, OwnLoads
<1>4. /\ zone' \subseteq Vals /\ form' \in FormType /\ deleting' \subseteq Vals
      /\ writing' \in [kind : {"none", "create", "update"}, old : SUBSET Vals, new : SUBSET Vals]
  <2>1. /\ form \in FormType /\ deleting \subseteq Vals /\ zone \subseteq Vals
        /\ writing \in [kind : {"none", "create", "update"}, old : SUBSET Vals, new : SUBSET Vals]
        BY ZoneTyped
  <2>2. CASE SaveSucceeds(out)
        BY <2>1, <2>2, NoFormType DEF SaveSucceeds, Saved
  <2>3. CASE DeleteSucceeds(out)
        BY <2>1, <2>3 DEF DeleteSucceeds, FreshForm, FormType
  <2> QED BY <2>2, <2>3
<1> QED BY <1>1, <1>2, <1>3, <1>4
        DEF ZoneInv, ZoneTypeOK, OwnWritesAreTold, OwnWriteIsShown, OutcomeIsShown, PageType,
            BannerType, FormType, ZoneLoadType

LEMMA ZoneInitInv == ZoneInit => ZoneInv
<1> SUFFICES ASSUME ZoneInit PROVE ZoneInv
    OBVIOUS
<1>1. NewLoad(FALSE) \in ZoneLoadType /\ NewLoad(FALSE).own = TRUE
      BY DEF NewLoad, ZoneLoadType
<1>2. zoneLoads = <<NewLoad(FALSE)>> /\ current = TRUE /\ told = {}
      BY DEF ZoneInit
<1>3. /\ zoneLoads \in Seq(ZoneLoadType) /\ Len(zoneLoads) = 1 /\ zoneLoads # <<>>
      /\ zoneLoads[1] = NewLoad(FALSE)
  <2>1. \A x : Len(<<x>>) = 1 /\ <<x>> # <<>> /\ <<x>>[1] = x
        OBVIOUS
  <2>2. ASSUME NEW S, NEW x \in S PROVE <<x>> \in Seq(S)
        BY <2>2
  <2> QED BY <1>1, <1>2, <2>1, <2>2
<1>4. page \in PageType /\ banner \in BannerType
      BY DEF ZoneInit, PageType, BannerType
<1>5. Len(zoneLoads) <= LoadBound /\ others \in 0..ZoneOthers
      BY <1>3, ZoneAssumption DEF ZoneInit
<1>6. \A j \in DOMAIN zoneLoads : zoneLoads[j] \in ZoneLoadType
      BY <1>3
<1>7. LastIsOwn
      BY <1>1, <1>3 DEF LastIsOwn
<1> QED BY <1>2, <1>3, <1>4, <1>5, <1>6, <1>7, NoFormType
        DEF ZoneInit, ZoneInv, ZoneTypeOK, OwnWritesAreTold, OwnWriteIsShown, OutcomeIsShown,
            PageType, BannerType, FormType, ZoneLoadType

LEMMA ZoneStep == ZoneInv /\ [ZoneNext]_zoneEditorVars => ZoneInv'
<1> SUFFICES ASSUME ZoneInv, [ZoneNext]_zoneEditorVars PROVE ZoneInv'
    OBVIOUS
<1>1. CASE DeleteFails
  <2>1. /\ banner' \in BannerType /\ told' \subseteq {"peer", "unloaded", "ptr"}
        /\ told' \subseteq banner'.warning \cup {banner'.error}
        BY <1>1, ComplainTold DEF DeleteFails
  <2> QED BY <1>1, <2>1, ZoneTyped, LoadsKept DEF DeleteFails, ZoneInv, ZoneTypeOK
<1>2. ASSUME NEW v \in Vals, OthersChange(v) PROVE ZoneInv'
  <2>1. others' \in 0..ZoneOthers
        BY <1>2, ZoneAssumption DEF OthersChange, ZoneInv, ZoneTypeOK
  <2>2. zone' \subseteq Vals
        BY <1>2, ZoneTyped DEF OthersChange
  <2> QED BY <1>2, <2>1, <2>2, ZoneTyped, LoadsKept DEF OthersChange
<1>3. CASE UNCHANGED zoneEditorVars
      BY <1>3 DEF zoneEditorVars, ZoneInv, ZoneTypeOK, LastIsOwn, OwnWritesAreTold,
                  OwnWriteIsShown, OutcomeIsShown
<1> QED BY <1>1, <1>2, <1>3, ServerReadsInv, LoadArrivesInv, LoadFailsInv, CloseBannerInv,
           ZoneFormInv, WriteSucceedsInv
        DEF ZoneNext

-----------------------------------------------------------------------------
(* ZonesPage: a failure of a server is told in the open dialog and no run   *)
(* goes on after it; a DNSSEC warning is kept by the run that found it; a   *)
(* refused record is told by the run that is still going, or in the banner. *)

ServerFailureIsTold == "server" \in owed => ~Creating /\ create.open /\ create.error

WarningIsTold ==
    "dnssec" \in owed =>
      /\ create.open /\ create.result
      /\ steps.at # "zone" /\ (Creating => steps.warned)

RefusalIsTold ==
    "record" \in owed => errors = "records" \/ (steps.at = "records" /\ steps.failed)

ZonesInv == ZonesTypeOK /\ ServerFailureIsTold /\ WarningIsTold /\ RefusalIsTold

CreateType == [open : BOOLEAN, valid : BOOLEAN, template : BOOLEAN, dnssec : BOOLEAN,
               error : BOOLEAN, result : BOOLEAN]
StepsType == [at : {"none", "zone", "servers", "records"}, left : 0..RecordBound,
              failed : BOOLEAN, warned : BOOLEAN]
ImportType == [open : BOOLEAN, busy : BOOLEAN, valid : BOOLEAN, preview : BOOLEAN,
               error : BOOLEAN]

LEMMA ZonesTyped ==
    ASSUME ZonesInv
    PROVE  /\ create \in CreateType /\ steps \in StepsType /\ import \in ImportType
           /\ template \in [arrived : BOOLEAN, records : 0..RecordBound]
           /\ owed \subseteq {"server", "dnssec", "record"}
           /\ errors \in {"none", "load", "records", "delete"}
BY DEF ZonesInv, ZonesTypeOK, CreateType, StepsType, ImportType

LEMMA NoRunType ==
    /\ NoRun \in StepsType /\ NoRun.at = "none"
    /\ NoDialog \in CreateType
BY ZonesAssumption DEF NoRun, NoDialog, StepsType, CreateType

(* The dialog may change where it tells nothing, when the run stays.        *)

LEMMA RunKept ==
    ASSUME ZonesInv, steps' = steps, create' \in CreateType, import' \in ImportType,
           template' \in [arrived : BOOLEAN, records : 0..RecordBound],
           errors' \in {"none", "load", "records", "delete"}, owed' \subseteq owed,
           "server" \in owed' => create'.open = create.open /\ create'.error = create.error,
           "dnssec" \in owed' => create'.open = create.open /\ create'.result = create.result,
           "record" \in owed' => errors' = errors
    PROVE  ZonesInv'
BY DEF ZonesInv, ZonesTypeOK, CreateType, StepsType, ImportType, ServerFailureIsTold,
       WarningIsTold, RefusalIsTold, Creating

LEMMA ZonesInitInv == ZonesInit => ZonesInv
<1> SUFFICES ASSUME ZonesInit PROVE ZonesInv
    OBVIOUS
<1>1. create \in CreateType /\ steps \in StepsType
      BY NoRunType DEF ZonesInit
<1>2. ZonesTypeOK
      BY <1>1 DEF ZonesInit, ZonesTypeOK, CreateType, StepsType
<1> QED BY <1>2 DEF ZonesInit, ZonesInv, ServerFailureIsTold, WarningIsTold, RefusalIsTold

(* Everything but the run and its answers.                                  *)

DialogNext ==
    \/ TemplatesArrive \/ OpenCreate \/ CloseCreate \/ DismissError
    \/ \E v, d \in BOOLEAN : FillCreate(v, d)
    \/ \E b \in BOOLEAN : ChooseTemplate(b)

LEMMA CreateDialogInv ==
    ASSUME ZonesInv, DialogNext
    PROVE  ZonesInv'
<1>1. /\ create \in CreateType /\ import \in ImportType
      /\ template \in [arrived : BOOLEAN, records : 0..RecordBound]
      /\ owed \subseteq {"server", "dnssec", "record"}
      /\ errors \in {"none", "load", "records", "delete"}
      BY ZonesTyped
<1>2. CASE TemplatesArrive
  <2>1. /\ create' \in CreateType
        /\ create'.open = create.open /\ create'.error = create.error
        /\ create'.result = create.result
        /\ template' \in [arrived : BOOLEAN, records : 0..RecordBound]
        BY <1>1, <1>2 DEF TemplatesArrive, CreateType
  <2> QED BY <1>1, <1>2, <2>1, RunKept DEF TemplatesArrive
<1>3. CASE OpenCreate
  <2>1. create' \in CreateType
        BY <1>1, <1>3 DEF OpenCreate, CreateType, NoDialog
  <2> QED BY <1>1, <1>3, <2>1, RunKept DEF OpenCreate
<1>4. CASE CloseCreate
  <2>1. create' \in CreateType
        BY <1>1, <1>4 DEF CloseCreate, CreateType
  <2> QED BY <1>1, <1>4, <2>1, RunKept DEF CloseCreate
<1>5. CASE DismissError
  <2>1. /\ create' \in CreateType
        /\ create'.open = create.open /\ create'.result = create.result
        BY <1>1, <1>5 DEF DismissError, CreateType
  <2> QED BY <1>1, <1>5, <2>1, RunKept DEF DismissError
<1>6. ASSUME NEW v \in BOOLEAN, NEW d \in BOOLEAN, FillCreate(v, d) PROVE ZonesInv'
  <2>1. /\ create' \in CreateType
        /\ create'.open = create.open /\ create'.error = create.error
        /\ create'.result = create.result
        BY <1>1, <1>6 DEF FillCreate, CreateType
  <2> QED BY <1>1, <1>6, <2>1, RunKept DEF FillCreate
<1>7. ASSUME NEW b \in BOOLEAN, ChooseTemplate(b) PROVE ZonesInv'
  <2>1. /\ create' \in CreateType
        /\ create'.open = create.open /\ create'.error = create.error
        /\ create'.result = create.result
        BY <1>1, <1>7 DEF ChooseTemplate, CreateType
  <2> QED BY <1>1, <1>7, <2>1, RunKept DEF ChooseTemplate
<1> QED BY <1>2, <1>3, <1>4, <1>5, <1>6, <1>7 DEF DialogNext

(* The list, the banner and the import.                                     *)

ListNext ==
    \/ ZonesFail \/ CloseError \/ OpenImport \/ CloseImport
    \/ \E a \in [Servers -> ServerAnswers] : ZoneDeleted(a)
    \/ \E b \in BOOLEAN : FillImport(b) \/ SendImport(b)
    \/ \E a \in {"preview", "error", "imported"} : ImportAnswered(a)

LEMMA ListInv ==
    ASSUME ZonesInv, ListNext
    PROVE  ZonesInv'
<1>1. /\ create \in CreateType /\ import \in ImportType
      /\ template \in [arrived : BOOLEAN, records : 0..RecordBound]
      /\ owed \subseteq {"server", "dnssec", "record"}
      /\ errors \in {"none", "load", "records", "delete"}
      BY ZonesTyped
<1>2. CASE ZonesFail \/ CloseError
      BY <1>1, <1>2, RunKept DEF ZonesFail, CloseError
<1>3. CASE OpenImport
  <2>1. import' \in ImportType
        BY <1>1, <1>3 DEF OpenImport, ImportType
  <2> QED BY <1>1, <1>3, <2>1, RunKept DEF OpenImport
<1>4. CASE CloseImport
  <2>1. import' \in ImportType
        BY <1>1, <1>4 DEF CloseImport, ImportType
  <2> QED BY <1>1, <1>4, <2>1, RunKept DEF CloseImport
<1>5. ASSUME NEW a \in [Servers -> ServerAnswers], ZoneDeleted(a) PROVE ZonesInv'
      BY <1>1, <1>5, RunKept DEF ZoneDeleted
<1>6. ASSUME NEW b \in BOOLEAN, FillImport(b) PROVE ZonesInv'
  <2>1. import' \in ImportType
        BY <1>1, <1>6 DEF FillImport, ImportType
  <2> QED BY <1>1, <1>6, <2>1, RunKept DEF FillImport
<1>7. ASSUME NEW b \in BOOLEAN, SendImport(b) PROVE ZonesInv'
  <2>1. import' \in ImportType
        BY <1>1, <1>7 DEF SendImport, ImportType
  <2> QED BY <1>1, <1>7, <2>1, RunKept DEF SendImport
<1>8. ASSUME NEW a \in {"preview", "error", "imported"}, ImportAnswered(a) PROVE ZonesInv'
  <2>1. import' \in ImportType
        BY <1>1, <1>8 DEF ImportAnswered, ImportType
  <2> QED BY <1>1, <1>8, <2>1, RunKept DEF ImportAnswered
<1> QED BY <1>2, <1>3, <1>4, <1>5, <1>6, <1>7, <1>8 DEF ListNext

(* The run starts, and its answers arrive.                                  *)

LEMMA FinishedTold ==
    ASSUME create \in CreateType, NEW run, run.warned \in BOOLEAN, Finished(run)
    PROVE  /\ create' \in CreateType
           /\ create'.open = (create.open /\ run.warned)
           /\ create'.result = run.warned
BY DEF Finished, CreateType

LEMMA SubmitCreateInv == ZonesInv /\ SubmitCreate => ZonesInv'
<1> SUFFICES ASSUME ZonesInv, SubmitCreate PROVE ZonesInv'
    OBVIOUS
<1>1. /\ create \in CreateType /\ steps \in StepsType
      /\ template \in [arrived : BOOLEAN, records : 0..RecordBound]
      /\ owed \subseteq {"server", "dnssec", "record"}
      BY ZonesTyped
<1>2. create' \in CreateType
      BY <1>1 DEF SubmitCreate, CreateType
<1>3. RecordsOf \in 0..RecordBound
      BY <1>1, ZonesAssumption DEF RecordsOf
<1>4. steps' \in StepsType /\ steps'.at \in {"none", "zone"}
      BY <1>1, <1>3 DEF SubmitCreate, StepsType, NoRun, Creating
<1>5. owed' = owed \ {"server", "dnssec"} /\ errors' = errors /\ steps.at = "none"
      BY DEF SubmitCreate, Creating
<1>6. ServerFailureIsTold' /\ WarningIsTold' /\ RefusalIsTold'
      BY <1>5 DEF ServerFailureIsTold, WarningIsTold, RefusalIsTold, ZonesInv
<1>7. ZonesTypeOK'
      BY <1>1, <1>2, <1>4, <1>5
         DEF SubmitCreate, ZonesInv, ZonesTypeOK, CreateType, StepsType
<1> QED BY <1>6, <1>7 DEF ZonesInv

LEMMA ZoneCreatedInv ==
    ASSUME ZonesInv, NEW answers \in [Servers -> ServerAnswers], ZoneCreated(answers)
    PROVE  ZonesInv'
<1> DEFINE run == [steps EXCEPT !.failed = AnyError(answers), !.warned = Warned(answers)]
<1>1. /\ create \in CreateType /\ steps \in StepsType
      /\ owed \subseteq {"server", "dnssec", "record"}
      /\ errors \in {"none", "load", "records", "delete"}
      BY ZonesTyped
<1>2. /\ run \in StepsType /\ run.warned = Warned(answers) /\ run.left = steps.left
      BY <1>1 DEF StepsType, AnyError, Warned
<1>3. steps.at = "zone" /\ UNCHANGED <<template, import, errors>>
      BY DEF ZoneCreated
<1>4. "server" \notin owed /\ "dnssec" \notin owed
      /\ ("record" \in owed => errors = "records")
      BY <1>3 DEF ZonesInv, ServerFailureIsTold, WarningIsTold, RefusalIsTold, Creating
<1>5. /\ owed' \subseteq {"server", "dnssec", "record"}
      /\ "record" \in owed' => "record" \in owed
      /\ "server" \in owed' => create.open /\ AnyError(answers)
      /\ "dnssec" \in owed' => create.open /\ Warned(answers)
      BY <1>1, <1>4 DEF ZoneCreated, AnyError, Warned
<1>6. RefusalIsTold'
      BY <1>3, <1>4, <1>5 DEF RefusalIsTold
<1>7. CASE AnyError(answers)
  <2>1. steps' = NoRun /\ create' = [create EXCEPT !.error = TRUE, !.result = TRUE]
        BY <1>7 DEF ZoneCreated
  <2>2. /\ create' \in CreateType /\ create'.open = create.open
        /\ create'.error /\ create'.result
        BY <1>1, <2>1 DEF CreateType
  <2>3. ServerFailureIsTold' /\ WarningIsTold'
        BY <1>5, <2>1, <2>2, NoRunType DEF ServerFailureIsTold, WarningIsTold, Creating
  <2>4. ZonesTypeOK'
        BY <1>3, <1>5, <2>1, <2>2, NoRunType
           DEF ZonesInv, ZonesTypeOK, CreateType, StepsType
  <2> QED BY <1>6, <2>3, <2>4 DEF ZonesInv
<1>8. CASE ~AnyError(answers) /\ steps.left > 0
  <2>1. /\ steps' = [run EXCEPT !.at = "servers"]
        /\ create' = [create EXCEPT !.result = TRUE]
        BY <1>8 DEF ZoneCreated
  <2>2. steps' \in StepsType /\ steps'.at = "servers" /\ steps'.warned = Warned(answers)
        BY <1>2, <2>1 DEF StepsType
  <2>3. create' \in CreateType /\ create'.open = create.open /\ create'.result
        BY <1>1, <2>1 DEF CreateType
  <2>4. ServerFailureIsTold' /\ WarningIsTold'
        BY <1>5, <1>8, <2>2, <2>3 DEF ServerFailureIsTold, WarningIsTold, Creating
  <2>5. ZonesTypeOK'
        BY <1>3, <1>5, <2>2, <2>3 DEF ZonesInv, ZonesTypeOK, CreateType, StepsType
  <2> QED BY <1>6, <2>4, <2>5 DEF ZonesInv
<1>9. CASE ~AnyError(answers) /\ ~(steps.left > 0)
  <2>1. steps' = NoRun /\ Finished(run)
        BY <1>9 DEF ZoneCreated
  <2>2. run.warned \in BOOLEAN
        BY <1>2 DEF StepsType
  <2>3. /\ create' \in CreateType /\ create'.open = (create.open /\ Warned(answers))
        /\ create'.result = Warned(answers)
    <3> HIDE DEF run
    <3> QED BY <1>1, <1>2, <2>1, <2>2, FinishedTold
  <2>4. ServerFailureIsTold' /\ WarningIsTold'
        BY <1>5, <1>9, <2>1, <2>3, NoRunType DEF ServerFailureIsTold, WarningIsTold, Creating
  <2>5. ZonesTypeOK'
        BY <1>3, <1>5, <2>1, <2>3, NoRunType
           DEF ZonesInv, ZonesTypeOK, CreateType, StepsType
  <2> QED BY <1>6, <2>4, <2>5 DEF ZonesInv
<1> QED BY <1>7, <1>8, <1>9

LEMMA RunFinished ==
    ASSUME ZonesInv, steps.at \in {"servers", "records"}, steps' = NoRun, Finished(steps),
           UNCHANGED <<template, import>>,
           errors' \in {"none", "load", "records", "delete"},
           owed' \subseteq owed \cup {"record"}, "record" \in owed' => errors' = "records"
    PROVE  ZonesInv'
<1>1. /\ create \in CreateType /\ steps \in StepsType
      /\ owed \subseteq {"server", "dnssec", "record"}
      BY ZonesTyped
<1>2. steps.warned \in BOOLEAN
      BY <1>1 DEF StepsType
<1>3. /\ create' \in CreateType /\ create'.open = (create.open /\ steps.warned)
      /\ create'.result = steps.warned
      BY <1>1, <1>2, FinishedTold
<1>4. ServerFailureIsTold' /\ WarningIsTold' /\ RefusalIsTold'
      BY <1>3, NoRunType
         DEF ZonesInv, ServerFailureIsTold, WarningIsTold, RefusalIsTold, Creating
<1>5. ZonesTypeOK'
      BY <1>1, <1>3, NoRunType DEF ZonesInv, ZonesTypeOK, CreateType, StepsType
<1> QED BY <1>4, <1>5 DEF ZonesInv

LEMMA RunGoesOn ==
    ASSUME ZonesInv, ServersArrive(TRUE) \/ ServersArrive(FALSE) \/ CreateFails
    PROVE  ZonesInv'
<1>1. /\ create \in CreateType /\ steps \in StepsType
      /\ owed \subseteq {"server", "dnssec", "record"}
      /\ errors \in {"none", "load", "records", "delete"}
      BY ZonesTyped
<1>2. CASE ServersArrive(TRUE)
  <2>1. steps' = [steps EXCEPT !.at = "records"] /\ steps.at = "servers"
        /\ UNCHANGED <<create, template, import, errors, owed>>
        BY <1>2 DEF ServersArrive
  <2>2. steps' \in StepsType /\ steps'.at = "records" /\ steps'.warned = steps.warned
        BY <1>1, <2>1 DEF StepsType
  <2> QED BY <2>1, <2>2 DEF ZonesInv, ZonesTypeOK, StepsType, ServerFailureIsTold,
             WarningIsTold, RefusalIsTold, Creating
<1>3. CASE ServersArrive(FALSE)
  <2>1. steps.at = "servers" /\ steps' = NoRun /\ Finished(steps)
        /\ UNCHANGED <<template, import, errors, owed>>
        BY <1>3 DEF ServersArrive
  <2>2. "record" \in owed => errors = "records"
        BY <2>1 DEF ZonesInv, RefusalIsTold
  <2> QED BY <1>1, <2>1, <2>2, RunFinished
<1>4. CASE CreateFails
  <2>1. steps' = NoRun /\ steps.at \in {"zone", "servers"}
        /\ UNCHANGED <<template, import, errors, owed>>
        BY <1>4 DEF CreateFails
  <2>2. /\ create' \in CreateType /\ create'.error /\ create'.open = create.open
        /\ create'.result = create.result
        BY <1>1, <1>4 DEF CreateFails, CreateType
  <2>3. ServerFailureIsTold' /\ WarningIsTold' /\ RefusalIsTold'
        BY <2>1, <2>2, NoRunType
           DEF ZonesInv, ServerFailureIsTold, WarningIsTold, RefusalIsTold, Creating
  <2>4. ZonesTypeOK'
        BY <2>1, <2>2, NoRunType DEF ZonesInv, ZonesTypeOK, CreateType, StepsType
  <2> QED BY <2>3, <2>4 DEF ZonesInv
<1> QED BY <1>2, <1>3, <1>4

LEMMA RecordAnsweredInv ==
    ASSUME ZonesInv, NEW refused \in BOOLEAN, RecordAnswered(refused)
    PROVE  ZonesInv'
<1>1. /\ create \in CreateType /\ steps \in StepsType
      /\ owed \subseteq {"server", "dnssec", "record"}
      /\ errors \in {"none", "load", "records", "delete"}
      BY ZonesTyped
<1>2. /\ owed' \subseteq owed \cup {"record"} /\ steps.at = "records"
      /\ UNCHANGED <<template, import>>
      BY DEF RecordAnswered
<1>3. "record" \in owed' => errors = "records" \/ RecordsFailed(refused)
      BY <1>2 DEF RecordAnswered, RecordsFailed, ZonesInv, RefusalIsTold
<1>4. CASE steps.left > 1
  <2>1. /\ steps' = [steps EXCEPT !.left = steps.left - 1, !.failed = RecordsFailed(refused)]
        /\ UNCHANGED <<create, errors>>
        BY <1>1, <1>4 DEF RecordAnswered, StepsType
  <2>2. /\ steps.left - 1 \in 0..RecordBound /\ RecordsFailed(refused) \in BOOLEAN
        BY <1>1, <1>4, ZonesAssumption DEF StepsType, RecordsFailed
  <2>3. /\ steps' \in StepsType /\ steps'.at = "records" /\ steps'.warned = steps.warned
        /\ steps'.failed = RecordsFailed(refused)
        BY <1>1, <1>2, <2>1, <2>2 DEF StepsType
  <2>4. ServerFailureIsTold' /\ WarningIsTold' /\ RefusalIsTold'
        BY <1>2, <1>3, <2>1, <2>3
           DEF ZonesInv, ServerFailureIsTold, WarningIsTold, RefusalIsTold, Creating
  <2>5. ZonesTypeOK'
        BY <1>1, <1>2, <2>1, <2>3 DEF ZonesInv, ZonesTypeOK, StepsType
  <2> QED BY <2>4, <2>5 DEF ZonesInv
<1>5. CASE ~(steps.left > 1)
  <2>1. /\ steps' = NoRun /\ Finished(steps)
        /\ errors' = IF RecordsFailed(refused) THEN "records" ELSE errors
        BY <1>5 DEF RecordAnswered
  <2> QED BY <1>1, <1>2, <1>3, <2>1, RunFinished
<1> QED BY <1>4, <1>5

LEMMA ZonesStep == ZonesInv /\ [ZonesNext]_zonesVars => ZonesInv'
<1> SUFFICES ASSUME ZonesInv, [ZonesNext]_zonesVars PROVE ZonesInv'
    OBVIOUS
<1>1. CASE UNCHANGED zonesVars
      BY <1>1 DEF zonesVars, ZonesInv, ZonesTypeOK, ServerFailureIsTold, WarningIsTold,
                  RefusalIsTold, Creating
<1>2. CASE SubmitCreate
      BY <1>2, SubmitCreateInv
<1>3. ASSUME NEW a \in [Servers -> ServerAnswers], ZoneCreated(a) PROVE ZonesInv'
      BY <1>3, ZoneCreatedInv
<1>4. ASSUME NEW b \in BOOLEAN, ServersArrive(b) PROVE ZonesInv'
  <2>1. b = TRUE \/ b = FALSE
        OBVIOUS
  <2> QED BY <1>4, <2>1, RunGoesOn
<1>5. CASE CreateFails
      BY <1>5, RunGoesOn
<1>6. ASSUME NEW b \in BOOLEAN, RecordAnswered(b) PROVE ZonesInv'
      BY <1>6, RecordAnsweredInv
<1>7. CASE DialogNext
      BY <1>7, CreateDialogInv
<1>9. CASE ListNext
      BY <1>9, ListInv
<1>8. ZonesNext => \/ SubmitCreate \/ CreateFails \/ DialogNext \/ ListNext
                   \/ \E a \in [Servers -> ServerAnswers] : ZoneCreated(a)
                   \/ \E b \in BOOLEAN : ServersArrive(b) \/ RecordAnswered(b)
      BY DEF ZonesNext, DialogNext, ListNext
<1> QED BY <1>1, <1>2, <1>3, <1>4, <1>5, <1>6, <1>7, <1>8, <1>9

LEMMA ZonesInvTells == ZonesInv => CreateTold
BY DEF ZonesInv, ServerFailureIsTold, WarningIsTold, RefusalIsTold, CreateTold, Creating

-----------------------------------------------------------------------------
(* RecordFormats: recursion over texts.  What a recursive definition        *)
(* computes is shown with a set of numbers that contains each successor.    *)

LEMMA LeastNumber ==
    ASSUME NEW S \in SUBSET Nat, S # {}
    PROVE  \E n \in S : \A m \in S : n <= m
<1> DEFINE below == OpToRel(<, Nat)
<1>1. IsWellFoundedOn(below, Nat)
      BY NatLessThanWellFounded, Zenon
<1>2. ASSUME NEW m \in Nat, NEW n \in Nat, m < n PROVE <<m, n>> \in below
  <2>1. <<m, n>> \in Nat \X Nat /\ <<m, n>>[1] = m /\ <<m, n>>[2] = n
        OBVIOUS
  <2> QED BY <1>2, <2>1 DEF OpToRel
<1> HIDE DEF below
<1>3. PICK n \in S : \A m \in S : ~(<<m, n>> \in below)
      BY <1>1, WFMin
<1>4. ASSUME NEW m \in S PROVE n <= m
  <2>1. m \in Nat /\ n \in Nat /\ ~(m < n)
        BY <1>2, <1>3
  <2> QED BY <2>1
<1> QED BY <1>4

LEMMA EveryNumber ==
    ASSUME NEW S, 0 \in S, \A n \in Nat : n \in S => n + 1 \in S
    PROVE  \A n \in Nat : n \in S
<1> DEFINE rest == {n \in Nat : n \notin S}
<1>1. ASSUME rest # {} PROVE FALSE
  <2>1. PICK least \in rest : \A n \in rest : least <= n
        BY <1>1, LeastNumber
  <2>2. least \in Nat /\ least # 0 /\ least \notin S
        BY <2>1
  <2>3. least - 1 \in Nat /\ (least - 1) + 1 = least
        BY <2>2
  <2>4. least - 1 \in S
        BY <2>1, <2>3
  <2> QED BY <2>2, <2>3, <2>4
<1> QED BY <1>1

\* Values computed one after the other, from first on.
Sequel(h, n, first, step) ==
    h[0] = first /\ \A i \in 1..n : h[i] = step[<<i, h[i - 1]>>]

LEMMA SequelExists ==
    ASSUME NEW V, NEW first \in V, NEW step \in [Nat \X V -> V], NEW n \in Nat
    PROVE  \E h \in [0..n -> V] : Sequel(h, n, first, step)
<1> DEFINE S == {m \in Nat : \E h \in [0..m -> V] : Sequel(h, m, first, step)}
<1>1. 0 \in S
  <2>1. [i \in 0..0 |-> first] \in [0..0 -> V]
        OBVIOUS
  <2>2. Sequel([i \in 0..0 |-> first], 0, first, step)
        BY DEF Sequel
  <2> QED BY <2>1, <2>2
<1>2. ASSUME NEW m \in Nat, m \in S PROVE m + 1 \in S
  <2>1. PICK h \in [0..m -> V] : Sequel(h, m, first, step)
        BY <1>2
  <2> DEFINE g == [i \in 0..(m + 1) |-> IF i <= m THEN h[i] ELSE step[<<i, h[m]>>]]
  <2>2. m \in 0..m /\ h[m] \in V
        BY <2>1
  <2>3. step[<<m + 1, h[m]>>] \in V
        BY <2>2
  <2>4. ASSUME NEW i \in 0..(m + 1)
        PROVE  (IF i <= m THEN h[i] ELSE step[<<i, h[m]>>]) \in V
    <3>1. CASE i <= m
          BY <2>1, <3>1
    <3>2. CASE ~(i <= m)
      <4>1. i = m + 1
            BY <3>2
      <4> QED BY <2>3, <3>2, <4>1
    <3> QED BY <3>1, <3>2
  <2>5. g \in [0..(m + 1) -> V]
        BY <2>4
  <2>6. ASSUME NEW i \in 1..(m + 1) PROVE g[i] = step[<<i, g[i - 1]>>]
    <3>1. i \in 0..(m + 1) /\ i - 1 \in 0..(m + 1) /\ i - 1 <= m
          OBVIOUS
    <3>2. g[i - 1] = h[i - 1]
          BY <3>1
    <3>3. CASE i <= m
          BY <2>1, <3>1, <3>2, <3>3 DEF Sequel
    <3>4. CASE ~(i <= m)
      <4>1. i - 1 = m
            BY <3>4
      <4> QED BY <3>1, <3>2, <3>4, <4>1
    <3> QED BY <3>3, <3>4
  <2>7. g[0] = first
        BY <2>1 DEF Sequel
  <2> HIDE DEF g
  <2> QED BY <2>5, <2>6, <2>7 DEF Sequel
<1> HIDE DEF S
<1>3. n \in S
      BY <1>1, <1>2, EveryNumber
<1> QED BY <1>3 DEF S

LEMMA SequelIsOne ==
    ASSUME NEW n \in Nat, NEW first, NEW step, NEW g, NEW h,
           Sequel(g, n, first, step), Sequel(h, n, first, step)
    PROVE  \A i \in 0..n : g[i] = h[i]
<1> DEFINE S == {i \in Nat : i <= n => g[i] = h[i]}
<1>1. 0 \in S
      BY DEF Sequel
<1>2. ASSUME NEW i \in Nat, i \in S PROVE i + 1 \in S
  <2> SUFFICES ASSUME i + 1 <= n PROVE g[i + 1] = h[i + 1]
      OBVIOUS
  <2>1. i + 1 \in 1..n /\ (i + 1) - 1 = i /\ g[i] = h[i]
        BY <1>2
  <2> QED BY <2>1 DEF Sequel
<1> HIDE DEF S
<1>3. \A i \in Nat : i \in S
      BY <1>1, <1>2, EveryNumber
<1> QED BY <1>3 DEF S

\* FlattenSeq joins its parts one after the other.
FlattenStep(ss, f) == [i \in 1..Len(ss) |-> IF i = 1 THEN ss[i] ELSE f[i - 1] \o ss[i]]

LEMMA FlattenBy ==
    ASSUME NEW C, NEW ss \in Seq(Seq(C)), NEW h, h[0] = << >>,
           \A i \in 1..Len(ss) : h[i] = h[i - 1] \o ss[i]
    PROVE  FlattenSeq(ss) = h[Len(ss)]
<1> DEFINE n == Len(ss)
           f == CHOOSE g : g = FlattenStep(ss, g)
<1>1. n \in Nat
      OBVIOUS
<1>2. CASE n = 0
  <2>1. ss = << >> /\ FlattenSeq(ss) = ss
        BY <1>2 DEF FlattenSeq
  <2> QED BY <1>2, <2>1
<1>3. CASE n # 0
  <2>0. 1 \in 1..n /\ h[1] = ss[1]
    <3>1. 1 \in 1..n /\ 1 - 1 = 0
          BY <1>1, <1>3
    <3>2. h[1] = h[1 - 1] \o ss[1]
          BY <3>1, Zenon
    <3>3. h[1] = << >> \o ss[1] /\ ss[1] \in Seq(C)
          BY <3>1, <3>2, ElementOfSeq
    <3> QED BY <3>1, <3>2, <3>3, ConcatEmptySeq
  <2>1. FlattenSeq(ss) = f[n]
        BY <1>3 DEF FlattenSeq, FlattenStep
  <2> DEFINE k == [i \in 1..n |-> h[i]]
  <2>2. k = FlattenStep(ss, k)
    <3>1. ASSUME NEW i \in 1..n PROVE k[i] = IF i = 1 THEN ss[i] ELSE k[i - 1] \o ss[i]
      <4>1. CASE i = 1
        <5>1. k[1] = h[1]
              BY <2>0
        <5> QED BY <2>0, <4>1, <5>1
      <4>2. CASE i # 1
        <5>1. i - 1 \in 1..n
              BY <4>2
        <5> QED BY <4>2, <5>1
      <4> QED BY <4>1, <4>2
    <3> QED BY <3>1 DEF FlattenStep
  <2> HIDE DEF k
  <2>3. f = FlattenStep(ss, f)
        BY <2>2
  <2> HIDE DEF f
  <2> DEFINE S == {i \in Nat : i + 1 <= n => f[i + 1] = h[i + 1]}
  <2>4. 0 \in S
    <3>1. f[1] = ss[1]
          BY <2>0, <2>3 DEF FlattenStep
    <3>2. 0 + 1 = 1
          OBVIOUS
    <3> QED BY <2>0, <3>1, <3>2
  <2>5. ASSUME NEW i \in Nat, i \in S PROVE i + 1 \in S
    <3> SUFFICES ASSUME i + 2 <= n PROVE f[i + 2] = h[i + 2]
        OBVIOUS
    <3>1. i + 2 \in 1..n /\ i + 2 # 1 /\ (i + 2) - 1 = i + 1
          OBVIOUS
    <3>2. f[i + 2] = f[i + 1] \o ss[i + 2]
          BY <2>3, <3>1 DEF FlattenStep
    <3>3. h[i + 2] = h[(i + 2) - 1] \o ss[i + 2]
          BY <3>1
    <3>4. i + 1 <= n /\ f[i + 1] = h[i + 1]
          BY <1>1, <2>5
    <3> QED BY <3>1, <3>2, <3>3, <3>4
  <2> HIDE DEF S
  <2>6. n - 1 \in S
    <3>1. \A i \in Nat : i \in S
          BY <2>4, <2>5, EveryNumber
    <3> QED BY <1>1, <1>3, <3>1
  <2>7. n - 1 \in Nat /\ (n - 1) + 1 = n
        BY <1>1, <1>3
  <2> QED BY <2>1, <2>6, <2>7 DEF S
<1> QED BY <1>2, <1>3

LEMMA FlattenHas ==
    ASSUME NEW C, NEW ss \in Seq(Seq(C))
    PROVE  \E h \in [0..Len(ss) -> Seq(C)] :
             /\ h[0] = << >> /\ FlattenSeq(ss) = h[Len(ss)]
             /\ \A i \in 1..Len(ss) : h[i] = h[i - 1] \o ss[i]
<1> DEFINE n == Len(ss)
           Joined(i, v) == IF i \in 1..n THEN v \o ss[i] ELSE v
           step == [p \in Nat \X Seq(C) |-> Joined(p[1], p[2])]
<1>1. n \in Nat /\ << >> \in Seq(C)
      OBVIOUS
<1>2. ASSUME NEW i \in Nat, NEW v \in Seq(C) PROVE Joined(i, v) \in Seq(C)
  <2>1. i \in 1..n => ss[i] \in Seq(C)
        BY ElementOfSeq
  <2> QED BY <2>1, ConcatProperties
<1> HIDE DEF Joined
<1>3. step \in [Nat \X Seq(C) -> Seq(C)]
      BY <1>2
<1>4. PICK h \in [0..n -> Seq(C)] : Sequel(h, n, << >>, step)
      BY <1>1, <1>3, SequelExists
<1>5. h[0] = << >>
      BY <1>4 DEF Sequel
<1>6. ASSUME NEW i \in 1..n PROVE h[i] = h[i - 1] \o ss[i]
  <2>1. i \in Nat /\ i - 1 \in 0..n
        BY <1>1
  <2>2. h[i - 1] \in Seq(C)
        BY <2>1
  <2>3. step[<<i, h[i - 1]>>] = Joined(i, h[i - 1])
        BY <2>1, <2>2
  <2> HIDE DEF step
  <2>4. h[i] = step[<<i, h[i - 1]>>]
        BY <1>4, Zenon DEF Sequel
  <2> QED BY <2>3, <2>4 DEF Joined
<1>7. FlattenSeq(ss) = h[n]
      BY <1>5, <1>6, FlattenBy
<1> QED BY <1>5, <1>6, <1>7

LEMMA FlattenType ==
    ASSUME NEW C, NEW ss \in Seq(Seq(C)) PROVE FlattenSeq(ss) \in Seq(C)
<1>1. PICK h \in [0..Len(ss) -> Seq(C)] : FlattenSeq(ss) = h[Len(ss)]
      BY FlattenHas
<1>2. Len(ss) \in 0..Len(ss)
      OBVIOUS
<1> QED BY <1>1, <1>2

LEMMA FlattenAppend ==
    ASSUME NEW C, NEW ss \in Seq(Seq(C)), NEW x \in Seq(C)
    PROVE  FlattenSeq(Append(ss, x)) = FlattenSeq(ss) \o x
<1> DEFINE more == Append(ss, x)
           n == Len(ss)
<1>1. /\ more \in Seq(Seq(C)) /\ Len(more) = n + 1 /\ n \in Nat
      /\ \A i \in 1..n : more[i] = ss[i] /\ more[n + 1] = x
      /\ more[n + 1] = x
      BY AppendProperties
<1> HIDE DEF more
<1>2. PICK h \in [0..Len(more) -> Seq(C)] :
        /\ h[0] = << >> /\ FlattenSeq(more) = h[Len(more)]
        /\ \A i \in 1..Len(more) : h[i] = h[i - 1] \o more[i]
      BY <1>1, FlattenHas
<1>3. ASSUME NEW i \in 1..Len(ss) PROVE h[i] = h[i - 1] \o ss[i]
  <2>1. i \in 1..Len(more) /\ more[i] = ss[i]
        BY <1>1
  <2>2. h[i] = h[i - 1] \o more[i]
        BY <1>2, <2>1, Zenon
  <2> QED BY <2>1, <2>2
<1>4. FlattenSeq(ss) = h[n]
      BY <1>2, <1>3, FlattenBy
<1>5. n + 1 \in 1..Len(more) /\ (n + 1) - 1 = n
      BY <1>1
<1>6. h[n + 1] = h[(n + 1) - 1] \o more[n + 1]
      BY <1>2, <1>5, Zenon
<1> QED BY <1>1, <1>2, <1>4, <1>5, <1>6 DEF more

\* Each character is escaped for itself.
EscapedOne(a, c) == IF a = c THEN <<Slash, c>> ELSE <<a>>

LEMMA EscapeEmpty == ASSUME NEW c PROVE Escape(<< >>, c) = << >>
<1>1. [i \in DOMAIN << >> |-> IF << >>[i] = c THEN <<Slash, c>> ELSE <<<< >>[i]>>] = << >>
      OBVIOUS
<1> QED BY <1>1 DEF Escape, FlattenSeq

LEMMA EscapeAppend ==
    ASSUME NEW s \in Seq(Chars), NEW a \in Chars, NEW c \in Chars
    PROVE  /\ Escape(s, c) \in Seq(Chars)
           /\ Escape(Append(s, a), c) = Escape(s, c) \o EscapedOne(a, c)
<1> DEFINE Parts2(t) == [i \in DOMAIN t |-> EscapedOne(t[i], c)]
           more == Append(s, a)
<1>1. ASSUME NEW b \in Chars PROVE EscapedOne(b, c) \in Seq(Chars)
  <2>1. Slash \in Chars
        BY DEF Chars
  <2>2. <<b>> \in Seq(Chars) /\ <<Slash, c>> \in Seq(Chars)
        BY <2>1
  <2> QED BY <2>2 DEF EscapedOne
<1>2. ASSUME NEW t \in Seq(Chars)
      PROVE  /\ Parts2(t) \in Seq(Seq(Chars)) /\ Len(Parts2(t)) = Len(t)
             /\ Escape(t, c) = FlattenSeq(Parts2(t))
  <2>1. Len(t) \in Nat /\ DOMAIN t = 1..Len(t)
        BY LenProperties
  <2>2. \A i \in 1..Len(t) : EscapedOne(t[i], c) \in Seq(Chars)
        BY <1>1, ElementOfSeq
  <2>3. Parts2(t) \in [1..Len(t) -> Seq(Chars)]
        BY <2>1, <2>2
  <2>4. Parts2(t) \in Seq(Seq(Chars)) /\ Len(Parts2(t)) = Len(t)
        BY <2>1, <2>3, SeqDef
  <2>5. Escape(t, c) = FlattenSeq(Parts2(t))
        BY DEF Escape, EscapedOne
  <2> QED BY <2>4, <2>5
<1>3. /\ more \in Seq(Chars) /\ Len(more) = Len(s) + 1 /\ Len(s) \in Nat
      /\ (\A i \in 1..Len(s) : more[i] = s[i]) /\ more[Len(s) + 1] = a
      /\ DOMAIN more = 1..(Len(s) + 1) /\ DOMAIN s = 1..Len(s)
      BY AppendProperties
<1>4. Parts2(more) = Append(Parts2(s), EscapedOne(a, c))
  <2>1. /\ Parts2(s) \in Seq(Seq(Chars)) /\ Len(Parts2(s)) = Len(s)
        /\ Parts2(more) \in Seq(Seq(Chars)) /\ Len(Parts2(more)) = Len(s) + 1
        /\ EscapedOne(a, c) \in Seq(Chars)
        BY <1>1, <1>2, <1>3
  <2>2. ASSUME NEW i \in 1..(Len(s) + 1)
        PROVE  Parts2(more)[i] = Append(Parts2(s), EscapedOne(a, c))[i]
    <3>1. Parts2(more)[i] = EscapedOne(more[i], c)
          BY <1>3
    <3>2. CASE i = Len(s) + 1
          BY <1>3, <2>1, <3>1, <3>2, AppendProperties
    <3>3. CASE i # Len(s) + 1
      <4>1. i \in 1..Len(s)
            BY <1>3, <3>3
      <4>2. Parts2(s)[i] = EscapedOne(s[i], c)
            BY <1>3, <4>1
      <4>3. Append(Parts2(s), EscapedOne(a, c))[i] = Parts2(s)[i]
            BY <2>1, <4>1, AppendProperties
      <4> QED BY <1>3, <3>1, <4>1, <4>2, <4>3
    <3> QED BY <3>2, <3>3
  <2> HIDE DEF Parts2
  <2>3. /\ Append(Parts2(s), EscapedOne(a, c)) \in Seq(Seq(Chars))
        /\ Len(Append(Parts2(s), EscapedOne(a, c))) = Len(s) + 1
        BY <2>1
  <2> QED BY <2>1, <2>2, <2>3, SeqEqual
<1>5. Escape(more, c) = FlattenSeq(Parts2(more)) /\ Escape(s, c) = FlattenSeq(Parts2(s))
      BY <1>2, <1>3
<1>6. Parts2(s) \in Seq(Seq(Chars)) /\ EscapedOne(a, c) \in Seq(Chars)
      BY <1>1, <1>2
<1> HIDE DEF Parts2
<1> QED BY <1>4, <1>5, <1>6, FlattenType, FlattenAppend

LEMMA EveryText ==
    ASSUME NEW P, << >> \in P,
           \A s \in Seq(Chars) : s \in P => \A a \in Chars : Append(s, a) \in P
    PROVE  \A s \in Seq(Chars) : s \in P
<1> DEFINE S == {n \in Nat : \A s \in Seq(Chars) : Len(s) = n => s \in P}
<1>1. 0 \in S
  <2>1. ASSUME NEW s \in Seq(Chars), Len(s) = 0 PROVE s \in P
    <3>1. s = << >>
          BY <2>1, EmptySeq
    <3> QED BY <3>1
  <2> QED BY <2>1
<1>2. ASSUME NEW n \in Nat, n \in S PROVE n + 1 \in S
  <2>1. ASSUME NEW s \in Seq(Chars), Len(s) = n + 1 PROVE s \in P
    <3>1. s # << >>
          BY <2>1, EmptySeq
    <3>2. PICK t \in Seq(Chars), a \in Chars : s = Append(t, a)
          BY <3>1, SequenceEmptyOrAppend
    <3>3. Len(t) = n
          BY <2>1, <3>2, AppendProperties, LenProperties
    <3>4. t \in P
          BY <1>2, <3>3
    <3> QED BY <3>2, <3>4
  <2> QED BY <2>1
<1> HIDE DEF S
<1>3. \A n \in Nat : n \in S
      BY <1>1, <1>2, EveryNumber
<1>4. ASSUME NEW s \in Seq(Chars) PROVE s \in P
      BY <1>3, LenProperties DEF S
<1> QED BY <1>4

LEMMA EscapeType == ASSUME NEW s \in Seq(Chars), NEW c \in Chars PROVE Escape(s, c) \in Seq(Chars)
<1>1. PICK a \in Chars : TRUE
      OBVIOUS
<1> QED BY <1>1, EscapeAppend

Coded(a) == IF a \in {Slash, Quote} THEN <<Slash, a>> ELSE <<a>>

LEMMA EscapedValueAppend ==
    ASSUME NEW s \in Seq(Chars), NEW a \in Chars
    PROVE  /\ EscapedValue(s) \in Seq(Chars)
           /\ EscapedValue(Append(s, a)) = EscapedValue(s) \o Coded(a)
<1> DEFINE e == Escape(s, Slash)
           v == Escape(e, Quote)
<1>1. Slash \in Chars /\ Quote \in Chars /\ Slash # Quote
      BY DEF Chars, Slash, Quote
<1>2. e \in Seq(Chars)
      BY <1>1, EscapeType
<1>3. v \in Seq(Chars)
      BY <1>1, <1>2, EscapeType
<1>4. Escape(Append(s, a), Slash) = e \o EscapedOne(a, Slash)
      BY <1>1, EscapeAppend
<1> HIDE DEF e, v
<1>5. ASSUME NEW b \in Chars PROVE Escape(Append(e, b), Quote) = v \o EscapedOne(b, Quote)
      BY <1>1, <1>2, EscapeAppend DEF v
<1>6. CASE a = Slash
  <2>1. e \o EscapedOne(a, Slash) = Append(Append(e, Slash), Slash)
        BY <1>1, <1>2, <1>6 DEF EscapedOne
  <2>2. Append(e, Slash) \in Seq(Chars)
        BY <1>1, <1>2
  <2>3. Escape(Append(Append(e, Slash), Slash), Quote)
          = Escape(Append(e, Slash), Quote) \o EscapedOne(Slash, Quote)
        BY <1>1, <2>2, EscapeAppend
  <2>4. Escape(Append(e, Slash), Quote) = v \o <<Slash>> /\ EscapedOne(Slash, Quote) = <<Slash>>
        BY <1>1, <1>5 DEF EscapedOne
  <2>5. (v \o <<Slash>>) \o <<Slash>> = v \o <<Slash, Slash>>
        BY <1>1, <1>3
  <2> QED BY <1>3, <1>4, <1>6, <2>1, <2>3, <2>4, <2>5 DEF EscapedValue, Coded, e, v
<1>7. CASE a # Slash
  <2>1. e \o EscapedOne(a, Slash) = Append(e, a)
        BY <1>2, <1>7 DEF EscapedOne
  <2>2. Escape(Append(e, a), Quote) = v \o EscapedOne(a, Quote)
        BY <1>5
  <2>3. EscapedOne(a, Quote) = Coded(a)
        BY <1>1, <1>7 DEF EscapedOne, Coded
  <2> QED BY <1>3, <1>4, <2>1, <2>2, <2>3 DEF EscapedValue, e, v
<1> QED BY <1>6, <1>7

LEMMA EscapedIs ==
    ASSUME NEW s \in Seq(Chars)
    PROVE  /\ Escaped(s) \subseteq 1..Len(s)
           /\ \A i \in 1..Len(s) :
                i \in Escaped(s) <=> i > 1 /\ s[i - 1] = Slash /\ i - 1 \notin Escaped(s)
<1> DEFINE n == Len(s)
           Waits(i, v) == i > 1 /\ s[i - 1] = Slash /\ v = 0
           step == [p \in Nat \X {0, 1} |-> IF Waits(p[1], p[2]) THEN 1 ELSE 0]
           esc == CHOOSE g : g = [i \in 0..Len(s) |-> i > 1 /\ s[i - 1] = Slash /\ ~g[i - 1]]
<1>1. n \in Nat /\ DOMAIN s = 1..n
      BY LenProperties
<1>2. Escaped(s) = {i \in DOMAIN s : esc[i]}
      BY DEF Escaped
<1>3. step \in [Nat \X {0, 1} -> {0, 1}]
      OBVIOUS
<1> HIDE DEF Waits
<1>4. PICK h \in [0..n -> {0, 1}] : Sequel(h, n, 0, step)
      BY <1>1, <1>3, SequelExists
<1> DEFINE g == [i \in 0..n |-> h[i] = 1]
<1>5. g = [i \in 0..Len(s) |-> i > 1 /\ s[i - 1] = Slash /\ ~g[i - 1]]
  <2>1. ASSUME NEW i \in 0..n
        PROVE  (h[i] = 1) <=> (i > 1 /\ s[i - 1] = Slash /\ ~g[i - 1])
    <3>1. CASE i = 0
      <4>1. h[0] = 0
            BY <1>4 DEF Sequel
      <4> QED BY <3>1, <4>1
    <3>2. CASE i # 0
      <4>1. i \in 1..n /\ i - 1 \in 0..n /\ i \in Nat
            BY <1>1, <3>2
      <4>2. h[i] = step[<<i, h[i - 1]>>]
            BY <1>4, <4>1, Zenon DEF Sequel
      <4>3. h[i - 1] \in {0, 1}
            BY <4>1
      <4>4. step[<<i, h[i - 1]>>] = IF Waits(i, h[i - 1]) THEN 1 ELSE 0
            BY <4>1, <4>3
      <4>5. ~g[i - 1] <=> h[i - 1] = 0
            BY <4>1, <4>3
      <4> QED BY <4>2, <4>4, <4>5 DEF Waits
    <3> QED BY <3>1, <3>2
  <2> QED BY <2>1, Zenon
<1> HIDE DEF g
<1>6. esc = [i \in 0..Len(s) |-> i > 1 /\ s[i - 1] = Slash /\ ~esc[i - 1]]
      BY <1>5, Zenon
<1> HIDE DEF esc
<1>7. ASSUME NEW i \in 1..n
      PROVE  i \in Escaped(s) <=> i > 1 /\ s[i - 1] = Slash /\ i - 1 \notin Escaped(s)
  <2>1. i \in 0..n /\ (i > 1 => i - 1 \in DOMAIN s) /\ i \in DOMAIN s
        BY <1>1
  <2>2. esc[i] <=> (i > 1 /\ s[i - 1] = Slash /\ ~esc[i - 1])
        BY <1>6, <2>1, Zenon
  <2>3. i \in Escaped(s) <=> esc[i]
        BY <1>2, <2>1
  <2>4. i > 1 => (i - 1 \in Escaped(s) <=> esc[i - 1])
        BY <1>2, <2>1
  <2> QED BY <2>2, <2>3, <2>4
<1> QED BY <1>1, <1>2, <1>7

\* The escaped positions of a text depend on what stands before them.
LEMMA EscapedPrefix ==
    ASSUME NEW s \in Seq(Chars), NEW t \in Seq(Chars), NEW m \in Nat, m <= Len(s), m <= Len(t),
           \A i \in 1..m : i < m => s[i] = t[i]
    PROVE  \A i \in 1..m : i \in Escaped(s) <=> i \in Escaped(t)
<1> DEFINE S == {n \in Nat : n \in 1..m => (n \in Escaped(s) <=> n \in Escaped(t))}
<1>1. Len(s) \in Nat /\ Len(t) \in Nat
      BY LenProperties
<1>2. 0 \in S
      OBVIOUS
<1>3. ASSUME NEW n \in Nat, n \in S PROVE n + 1 \in S
  <2> SUFFICES ASSUME n + 1 \in 1..m PROVE n + 1 \in Escaped(s) <=> n + 1 \in Escaped(t)
      OBVIOUS
  <2>1. n + 1 \in 1..Len(s) /\ n + 1 \in 1..Len(t) /\ (n + 1) - 1 = n
        BY <1>1
  <2>2. n + 1 \in Escaped(s) <=> n + 1 > 1 /\ s[(n + 1) - 1] = Slash /\ (n + 1) - 1 \notin Escaped(s)
        BY <2>1, EscapedIs, Zenon
  <2>3. n + 1 \in Escaped(t) <=> n + 1 > 1 /\ t[(n + 1) - 1] = Slash /\ (n + 1) - 1 \notin Escaped(t)
        BY <2>1, EscapedIs, Zenon
  <2>4. CASE n = 0
        BY <2>2, <2>3, <2>4
  <2>5. CASE n # 0
    <3>1. n \in 1..m /\ n < m
          BY <2>5
    <3>2. s[n] = t[n] /\ (n \in Escaped(s) <=> n \in Escaped(t))
          BY <1>3, <3>1
    <3> QED BY <2>1, <2>2, <2>3, <3>2
  <2> QED BY <2>4, <2>5
<1> HIDE DEF S
<1>4. \A n \in Nat : n \in S
      BY <1>2, <1>3, EveryNumber
<1> QED BY <1>4 DEF S

\* s ends with a backslash that waits for the next character.
EndsOpen(s) == Len(s) > 0 /\ s[Len(s)] = Slash /\ Len(s) \notin Escaped(s)

LEMMA EscapedAppend ==
    ASSUME NEW s \in Seq(Chars), NEW a \in Chars
    PROVE  /\ \A i \in 1..Len(s) : i \in Escaped(Append(s, a)) <=> i \in Escaped(s)
           /\ Len(s) + 1 \in Escaped(Append(s, a)) <=> EndsOpen(s)
           /\ EndsOpen(Append(s, a)) <=> a = Slash /\ ~EndsOpen(s)
<1> DEFINE t == Append(s, a)
           n == Len(s)
<1>1. /\ t \in Seq(Chars) /\ Len(t) = n + 1 /\ n \in Nat
      /\ \A i \in 1..n : t[i] = s[i]
      /\ t[n + 1] = a
      BY AppendProperties
<1> HIDE DEF t
<1>2. \A i \in 1..n : i \in Escaped(s) <=> i \in Escaped(t)
      BY <1>1, EscapedPrefix
<1>3. n + 1 \in 1..Len(t) /\ (n + 1) - 1 = n
      BY <1>1
<1>4. n + 1 \in Escaped(t) <=> n + 1 > 1 /\ t[(n + 1) - 1] = Slash /\ (n + 1) - 1 \notin Escaped(t)
      BY <1>1, <1>3, EscapedIs, Zenon
<1>5. n + 1 \in Escaped(t) <=> EndsOpen(s)
  <2>1. CASE n = 0
        BY <1>4, <2>1 DEF EndsOpen
  <2>2. CASE n # 0
    <3>1. n \in 1..n /\ n > 0 /\ n + 1 > 1
          BY <1>1, <2>2
    <3>2. t[n] = s[n] /\ (n \in Escaped(s) <=> n \in Escaped(t))
          BY <1>1, <1>2, <3>1
    <3> QED BY <1>3, <1>4, <3>1, <3>2 DEF EndsOpen
  <2> QED BY <2>1, <2>2
<1>6. EndsOpen(t) <=> a = Slash /\ ~EndsOpen(s)
  <2>1. Len(t) > 0
        BY <1>1
  <2> QED BY <1>1, <1>5, <2>1 DEF EndsOpen
<1> QED BY <1>2, <1>5, <1>6 DEF t

ReadAs(s, i) == IF s[i] = Slash /\ i \notin Escaped(s) /\ i < Len(s) THEN << >> ELSE <<s[i]>>

LEMMA UnescapeParts ==
    ASSUME NEW s \in Seq(Chars)
    PROVE  /\ Unescape(s) = FlattenSeq([i \in 1..Len(s) |-> ReadAs(s, i)])
           /\ [i \in 1..Len(s) |-> ReadAs(s, i)] \in Seq(Seq(Chars))
           /\ Len([i \in 1..Len(s) |-> ReadAs(s, i)]) = Len(s)
           /\ Unescape(s) \in Seq(Chars)
<1>1. Len(s) \in Nat /\ DOMAIN s = 1..Len(s)
      BY LenProperties
<1>2. ASSUME NEW i \in 1..Len(s) PROVE ReadAs(s, i) \in Seq(Chars)
  <2>1. s[i] \in Chars
        BY ElementOfSeq
  <2>2. << >> \in Seq(Chars) /\ <<s[i]>> \in Seq(Chars)
        BY <2>1
  <2> QED BY <2>2 DEF ReadAs
<1>3. [i \in 1..Len(s) |-> ReadAs(s, i)] \in [1..Len(s) -> Seq(Chars)]
      BY <1>2
<1>4. /\ [i \in 1..Len(s) |-> ReadAs(s, i)] \in Seq(Seq(Chars))
      /\ Len([i \in 1..Len(s) |-> ReadAs(s, i)]) = Len(s)
      BY <1>1, <1>3, SeqDef
<1>5. Unescape(s) = FlattenSeq([i \in 1..Len(s) |-> ReadAs(s, i)])
      BY <1>1 DEF Unescape, ReadAs
<1> QED BY <1>4, <1>5, FlattenType

\* Behind a text that waits for nothing, a character stands for itself, and so
\* does one behind a backslash.
LEMMA UnescapePlain ==
    ASSUME NEW s \in Seq(Chars), NEW a \in Chars, ~EndsOpen(s)
    PROVE  Unescape(Append(s, a)) = Append(Unescape(s), a)
<1> DEFINE t == Append(s, a)
           n == Len(s)
           p == [i \in 1..Len(s) |-> ReadAs(s, i)]
           q == [i \in 1..Len(t) |-> ReadAs(t, i)]
<1>1. /\ t \in Seq(Chars) /\ Len(t) = n + 1 /\ n \in Nat
      /\ \A i \in 1..n : t[i] = s[i]
      /\ t[n + 1] = a
      BY AppendProperties
<1>2. /\ \A i \in 1..n : i \in Escaped(t) <=> i \in Escaped(s)
      BY EscapedAppend
<1>3. /\ p \in Seq(Seq(Chars)) /\ Len(p) = n /\ Unescape(s) = FlattenSeq(p)
      /\ Unescape(s) \in Seq(Chars)
      BY UnescapeParts
<1> HIDE DEF t
<1>4. q \in Seq(Seq(Chars)) /\ Len(q) = n + 1 /\ Unescape(t) = FlattenSeq(q)
      BY <1>1, UnescapeParts
<1>5. <<a>> \in Seq(Chars)
      OBVIOUS
<1>6. q = Append(p, <<a>>)
  <2>1. /\ Append(p, <<a>>) \in Seq(Seq(Chars)) /\ Len(Append(p, <<a>>)) = n + 1
        BY <1>1, <1>3, <1>5
  <2>2. ASSUME NEW i \in 1..(n + 1) PROVE q[i] = Append(p, <<a>>)[i]
    <3>1. q[i] = ReadAs(t, i)
          BY <1>1
    <3>2. CASE i = n + 1
      <4>1. ReadAs(t, i) = <<a>>
            BY <1>1, <3>2 DEF ReadAs
      <4> QED BY <1>3, <1>5, <3>1, <3>2, <4>1, AppendProperties
    <3>3. CASE i # n + 1
      <4>1. i \in 1..n /\ i < Len(t)
            BY <1>1, <3>3
      <4>2. p[i] = ReadAs(s, i)
            BY <4>1
      <4>3. i = n => ~(s[i] = Slash /\ i \notin Escaped(s))
            BY <4>1 DEF EndsOpen
      <4>4. t[i] = s[i] /\ (i \in Escaped(t) <=> i \in Escaped(s)) /\ (i < n \/ i = n)
            BY <1>1, <1>2, <4>1
      <4>5. ReadAs(t, i) = ReadAs(s, i)
            BY <4>1, <4>3, <4>4 DEF ReadAs
      <4>6. Append(p, <<a>>)[i] = p[i]
            BY <1>3, <1>5, <4>1, AppendProperties
      <4> QED BY <3>1, <4>2, <4>5, <4>6
    <3> QED BY <3>2, <3>3
  <2> HIDE DEF p, q
  <2> QED BY <1>4, <2>1, <2>2, SeqEqual
<1> HIDE DEF p, q
<1>7. FlattenSeq(q) = FlattenSeq(p) \o <<a>>
      BY <1>3, <1>5, <1>6, FlattenAppend
<1>8. Unescape(s) \o <<a>> = Append(Unescape(s), a)
      BY <1>3
<1> QED BY <1>3, <1>4, <1>7, <1>8 DEF t

LEMMA UnescapePair ==
    ASSUME NEW s \in Seq(Chars), NEW a \in Chars, ~EndsOpen(s)
    PROVE  Unescape(Append(Append(s, Slash), a)) = Append(Unescape(s), a)
<1> DEFINE u == Append(s, Slash)
           t == Append(u, a)
           n == Len(s)
           p == [i \in 1..Len(s) |-> ReadAs(s, i)]
           q == [i \in 1..Len(t) |-> ReadAs(t, i)]
<1>0. Slash \in Chars
      BY DEF Chars
<1>1. /\ u \in Seq(Chars) /\ Len(u) = n + 1 /\ n \in Nat
      /\ \A i \in 1..n : u[i] = s[i]
      /\ u[n + 1] = Slash
      BY <1>0, AppendProperties
<1>2. /\ \A i \in 1..n : i \in Escaped(u) <=> i \in Escaped(s)
      /\ n + 1 \notin Escaped(u)
      BY <1>0, EscapedAppend
<1> HIDE DEF u
<1>3. /\ t \in Seq(Chars) /\ Len(t) = (n + 1) + 1
      /\ \A i \in 1..(n + 1) : t[i] = u[i]
      /\ t[(n + 1) + 1] = a
      BY <1>1, AppendProperties
<1>4. \A i \in 1..(n + 1) : i \in Escaped(t) <=> i \in Escaped(u)
      BY <1>1, EscapedAppend
<1>5. /\ p \in Seq(Seq(Chars)) /\ Len(p) = n /\ Unescape(s) = FlattenSeq(p)
      /\ Unescape(s) \in Seq(Chars)
      BY UnescapeParts
<1> HIDE DEF t
<1>6. q \in Seq(Seq(Chars)) /\ Len(q) = n + 2 /\ Unescape(t) = FlattenSeq(q)
      BY <1>1, <1>3, UnescapeParts
<1> DEFINE r == Append(p, << >>)
<1>7. <<a>> \in Seq(Chars) /\ << >> \in Seq(Chars)
      OBVIOUS
<1>8. /\ r \in Seq(Seq(Chars)) /\ Len(r) = n + 1 /\ r[n + 1] = << >>
      /\ \A i \in 1..n : r[i] = p[i]
      BY <1>1, <1>5, <1>7, AppendProperties
<1>9. q = Append(r, <<a>>)
  <2> HIDE DEF r
  <2>1. Append(r, <<a>>) \in Seq(Seq(Chars)) /\ Len(Append(r, <<a>>)) = n + 2
        BY <1>1, <1>7, <1>8
  <2>2. ASSUME NEW i \in 1..(n + 2) PROVE q[i] = Append(r, <<a>>)[i]
    <3>1. q[i] = ReadAs(t, i)
          BY <1>1, <1>3
    <3>2. CASE i = n + 2
      <4>1. ReadAs(t, i) = <<a>>
            BY <1>1, <1>3, <3>2 DEF ReadAs
      <4>2. i = Len(r) + 1
            BY <1>1, <1>8, <3>2
      <4>3. r \in Seq(Seq(Chars)) /\ <<a>> \in Seq(Chars)
            BY <1>7, <1>8
      <4>4. Append(r, <<a>>)[Len(r) + 1] = <<a>>
            BY <4>3, AppendProperties
      <4> QED BY <3>1, <4>1, <4>2, <4>4
    <3>3. CASE i = n + 1
      <4>1. i \in 1..(n + 1) /\ i < Len(t) /\ t[i] = Slash /\ i \notin Escaped(t)
            BY <1>1, <1>2, <1>3, <1>4, <3>3
      <4>2. ReadAs(t, i) = << >>
            BY <4>1 DEF ReadAs
      <4>3. Append(r, <<a>>)[i] = r[i]
            BY <1>7, <1>8, <4>1, AppendProperties
      <4> QED BY <1>8, <3>1, <3>3, <4>2, <4>3
    <3>4. CASE i # n + 1 /\ i # n + 2
      <4>1. i \in 1..n /\ i \in 1..(n + 1) /\ i < Len(t)
            BY <1>1, <1>3, <3>4
      <4>2. p[i] = ReadAs(s, i)
            BY <4>1
      <4>3. i = n => ~(s[i] = Slash /\ i \notin Escaped(s))
            BY <4>1 DEF EndsOpen
      <4>4. t[i] = s[i] /\ (i \in Escaped(t) <=> i \in Escaped(s)) /\ (i < n \/ i = n)
            BY <1>1, <1>2, <1>3, <1>4, <4>1
      <4>5. ReadAs(t, i) = ReadAs(s, i)
            BY <4>1, <4>3, <4>4 DEF ReadAs
      <4>6. Append(r, <<a>>)[i] = r[i]
            BY <1>7, <1>8, <4>1, AppendProperties
      <4> QED BY <1>8, <3>1, <4>1, <4>2, <4>5, <4>6
    <3> QED BY <3>2, <3>3, <3>4
  <2> HIDE DEF p, q
  <2> QED BY <1>6, <2>1, <2>2, SeqEqual
<1> HIDE DEF p, q
<1>10. FlattenSeq(r) = FlattenSeq(p) \o << >>
      BY <1>5, <1>7, FlattenAppend
<1>11. FlattenSeq(p) \o << >> = FlattenSeq(p)
      BY <1>5
<1> HIDE DEF r
<1>12. FlattenSeq(q) = FlattenSeq(r) \o <<a>>
      BY <1>7, <1>8, <1>9, FlattenAppend
<1>13. Unescape(s) \o <<a>> = Append(Unescape(s), a)
      BY <1>5
<1> QED BY <1>5, <1>6, <1>10, <1>11, <1>12, <1>13 DEF t, u

\* What CAA escapes is read back.
LEMMA UnescapeEscaped ==
    ASSUME NEW s \in Seq(Chars)
    PROVE  Unescape(EscapedValue(s)) = s
<1> DEFINE P == {t \in Seq(Chars) : ~EndsOpen(EscapedValue(t)) /\ Unescape(EscapedValue(t)) = t}
<1>1. << >> \in P
  <2>1. EscapedValue(<< >>) = << >>
        BY EscapeEmpty DEF EscapedValue
  <2>2. ~EndsOpen(<< >>)
        BY DEF EndsOpen
  <2>3. << >> \in Seq(Chars) /\ Len(<< >>) = 0
        OBVIOUS
  <2>4. Unescape(<< >>) = FlattenSeq(<< >>)
    <3>1. [i \in 1..0 |-> ReadAs(<< >>, i)] = << >>
          OBVIOUS
    <3> QED BY <2>3, <3>1, UnescapeParts
  <2> QED BY <2>1, <2>2, <2>3, <2>4 DEF FlattenSeq
<1>2. ASSUME NEW t \in Seq(Chars), t \in P, NEW a \in Chars PROVE Append(t, a) \in P
  <2> DEFINE e == EscapedValue(t)
  <2>1. e \in Seq(Chars) /\ EscapedValue(Append(t, a)) = e \o Coded(a) /\ ~EndsOpen(e) /\ Unescape(e) = t
        BY <1>2, EscapedValueAppend
  <2>2. Append(t, a) \in Seq(Chars)
        OBVIOUS
  <2> HIDE DEF e
  <2>3. Slash \in Chars
        BY DEF Chars
  <2>4. CASE a \in {Slash, Quote}
    <3>1. e \o Coded(a) = Append(Append(e, Slash), a)
          BY <2>1, <2>3, <2>4 DEF Coded
    <3>2. Append(e, Slash) \in Seq(Chars) /\ EndsOpen(Append(e, Slash))
          BY <2>1, <2>3, EscapedAppend
    <3>3. ~EndsOpen(Append(Append(e, Slash), a))
          BY <3>2, EscapedAppend
    <3>4. Unescape(Append(Append(e, Slash), a)) = Append(t, a)
          BY <2>1, UnescapePair
    <3> QED BY <2>1, <2>2, <3>1, <3>3, <3>4
  <2>5. CASE a \notin {Slash, Quote}
    <3>1. e \o Coded(a) = Append(e, a)
          BY <2>1, <2>5 DEF Coded
    <3>2. ~EndsOpen(Append(e, a))
          BY <2>1, <2>5, EscapedAppend
    <3>3. Unescape(Append(e, a)) = Append(t, a)
          BY <2>1, UnescapePlain
    <3> QED BY <2>1, <2>2, <3>1, <3>2, <3>3
  <2> QED BY <2>4, <2>5
<1> HIDE DEF P
<1>3. \A t \in Seq(Chars) : t \in P
      BY <1>1, <1>2, EveryText
<1> QED BY <1>3 DEF P

LEMMA EdgesOf ==
    ASSUME NEW n \in Nat, NEW K \in SUBSET (1..n), K # {}
    PROVE  \E i, j \in K : \A k \in K : i <= k /\ k <= j
<1>1. PICK i \in K : \A k \in K : i <= k
      BY LeastNumber
<1> DEFINE M == {n - k : k \in K}
<1>2. M \in SUBSET Nat /\ M # {}
      OBVIOUS
<1>3. PICK m \in M : \A l \in M : m <= l
      BY <1>2, LeastNumber
<1>4. PICK j \in K : m = n - j
      BY <1>3
<1>5. ASSUME NEW k \in K PROVE k <= j
  <2>1. n - j <= n - k
        BY <1>3, <1>4
  <2> QED BY <2>1
<1> QED BY <1>1, <1>5

LEMMA TrimIs ==
    ASSUME NEW s \in Seq(Chars)
    PROVE  \/ Trim(s) = << >> /\ \A k \in 1..Len(s) : s[k] = Space
           \/ \E i, j \in 1..Len(s) :
                /\ s[i] # Space /\ s[j] # Space /\ i <= j
                /\ \A k \in 1..Len(s) : s[k] # Space => i <= k /\ k <= j
                /\ Trim(s) = SubSeq(s, i, j)
<1> DEFINE keep == {i \in DOMAIN s : s[i] # Space}
           low == CHOOSE i \in keep : \A j \in keep : i <= j
           high == CHOOSE i \in keep : \A j \in keep : i >= j
<1>1. Len(s) \in Nat /\ DOMAIN s = 1..Len(s)
      BY LenProperties
<1>2. CASE keep = {}
  <2>1. Trim(s) = << >>
        BY <1>2 DEF Trim
  <2> QED BY <1>1, <1>2, <2>1
<1>3. CASE keep # {}
  <2>1. Trim(s) = SubSeq(s, low, high)
        BY <1>3 DEF Trim
  <2>2. keep \in SUBSET (1..Len(s))
        BY <1>1
  <2>3. ASSUME NEW k \in 1..Len(s), s[k] # Space PROVE k \in keep
        BY <1>1, <2>3
  <2>4. \A k \in keep : s[k] # Space
        OBVIOUS
  <2> HIDE DEF keep
  <2>5. PICK i, j \in keep : \A k \in keep : i <= k /\ k <= j
        BY <1>1, <1>3, <2>2, EdgesOf
  <2>6. low \in keep /\ \A k \in keep : low <= k
        BY <2>5
  <2>7. \A k \in keep : j >= k
        BY <2>2, <2>5
  <2>8. high \in keep /\ \A k \in keep : high >= k
        BY <2>7
  <2> HIDE DEF low, high
  <2>9. low \in 1..Len(s) /\ high \in 1..Len(s) /\ s[low] # Space /\ s[high] # Space /\ low <= high
        BY <2>2, <2>4, <2>6, <2>8
  <2>10. \A k \in 1..Len(s) : s[k] # Space => low <= k /\ k <= high
    <3> TAKE k \in 1..Len(s)
    <3> HAVE s[k] # Space
    <3>1. k \in keep
          BY <2>3
    <3>2. low <= k /\ high >= k
          BY <2>6, <2>8, <3>1
    <3> QED BY <2>9, <3>2
  <2> QED BY <2>1, <2>9, <2>10
<1> QED BY <1>2, <1>3

LEMMA TrimFixed ==
    ASSUME NEW s \in Seq(Chars), Len(s) > 0, s[1] # Space, s[Len(s)] # Space
    PROVE  Trim(s) = s
<1>1. Len(s) \in Nat /\ 1 \in 1..Len(s) /\ Len(s) \in 1..Len(s)
      BY LenProperties
<1>2. PICK i, j \in 1..Len(s) :
        /\ \A k \in 1..Len(s) : s[k] # Space => i <= k /\ k <= j
        /\ Trim(s) = SubSeq(s, i, j)
      BY <1>1, TrimIs
<1>3. i <= 1 /\ Len(s) <= j
      BY <1>1, <1>2
<1>4. i = 1 /\ j = Len(s)
      BY <1>1, <1>3
<1> QED BY <1>2, <1>4, SubSeqFull

LEMMA TrimEdges ==
    ASSUME NEW s \in Seq(Chars)
    PROVE  /\ Trim(s) \in Seq(Chars)
           /\ Trim(s) # << >> => /\ Len(Trim(s)) > 0
                                 /\ Trim(s)[1] # Space /\ Trim(s)[Len(Trim(s))] # Space
           /\ \A k \in 1..Len(Trim(s)) : \E i \in 1..Len(s) : Trim(s)[k] = s[i]
<1>1. CASE Trim(s) = << >>
      BY <1>1
<1>2. CASE Trim(s) # << >>
  <2>1. PICK i, j \in 1..Len(s) :
          s[i] # Space /\ s[j] # Space /\ i <= j /\ Trim(s) = SubSeq(s, i, j)
        BY <1>2, TrimIs
  <2>2. Len(s) \in Nat
        BY LenProperties
  <2>3. \A k \in i..j : s[k] \in Chars
    <3> TAKE k \in i..j
    <3>1. k \in 1..Len(s)
          BY <2>2
    <3> QED BY <3>1, ElementOfSeq
  <2> DEFINE t == SubSeq(s, i, j)
  <2>4. /\ t \in Seq(Chars) /\ Len(t) = j - i + 1
        /\ \A k \in 1..(j - i + 1) : t[k] = s[i + k - 1]
        BY <2>1, <2>2, <2>3, SubSeqProperties
  <2> HIDE DEF t
  <2>5. 1 \in 1..(j - i + 1) /\ i + 1 - 1 = i /\ j - i + 1 \in 1..(j - i + 1) /\ i + (j - i + 1) - 1 = j
        BY <2>1, <2>2
  <2>6. t[1] = s[i] /\ t[j - i + 1] = s[j]
        BY <2>4, <2>5
  <2>7. ASSUME NEW k \in 1..Len(t) PROVE \E l \in 1..Len(s) : t[k] = s[l]
    <3>1. k \in 1..(j - i + 1) /\ i + k - 1 \in 1..Len(s)
          BY <2>1, <2>2, <2>4
    <3>2. t[k] = s[i + k - 1]
          BY <2>4, <3>1
    <3> QED BY <3>1, <3>2
  <2>8. t = Trim(s)
        BY <2>1 DEF t
  <2>9. Len(t) > 0
        BY <2>1, <2>2, <2>4
  <2> QED BY <2>1, <2>4, <2>6, <2>7, <2>8, <2>9
<1> QED BY <1>1, <1>2

LEMMA TrimNone == Trim(<< >>) = << >>
<1>1. << >> \in Seq(Chars) /\ Len(<< >>) = 0
      OBVIOUS
<1>2. 1..Len(<< >>) = {}
      BY <1>1
<1> QED BY <1>1, <1>2, TrimIs

LEMMA TrimTrim == ASSUME NEW s \in Seq(Chars) PROVE Trim(Trim(s)) = Trim(s)
<1>1. CASE Trim(s) = << >>
      BY <1>1, TrimNone
<1>2. CASE Trim(s) # << >>
      BY <1>2, TrimEdges, TrimFixed
<1> QED BY <1>1, <1>2

LEMMA QuotedIs ==
    ASSUME NEW s \in Seq(Chars)
    PROVE  /\ Quoted(s) \in Seq(Chars) /\ Len(Quoted(s)) = Len(s) + 2
           /\ Quoted(s)[1] = Quote /\ Quoted(s)[Len(s) + 2] = Quote
           /\ \A i \in 1..Len(s) : Quoted(s)[i + 1] = s[i]
           /\ Starts(Quoted(s)) /\ Ends(Quoted(s)) /\ Inside(Quoted(s)) = s
<1> DEFINE q == Quoted(s)
           n == Len(s)
<1>1. n \in Nat /\ Quote \in Chars /\ <<Quote>> \in Seq(Chars)
      BY LenProperties DEF Chars
<1>2. q \in Seq(Chars) /\ Len(q) = n + 2
      BY <1>1 DEF Quoted
<1>3. q[1] = Quote /\ q[n + 2] = Quote
      BY <1>1 DEF Quoted
<1>4. ASSUME NEW i \in 1..n PROVE q[i + 1] = s[i]
      BY <1>1 DEF Quoted
<1> HIDE DEF q
<1>5. Starts(q) /\ Ends(q)
      BY <1>1, <1>2, <1>3 DEF Starts, Ends
<1>6. Inside(q) = s
  <2>1. Inside(q) = SubSeq(q, 2, n + 1)
        BY <1>1, <1>2 DEF Inside
  <2>2. \A i \in 2..(n + 1) : q[i] \in Chars
    <3> TAKE i \in 2..(n + 1)
    <3>1. i \in 1..Len(q)
          BY <1>1, <1>2
    <3> QED BY <1>2, <3>1, ElementOfSeq
  <2>3. /\ SubSeq(q, 2, n + 1) \in Seq(Chars)
        /\ Len(SubSeq(q, 2, n + 1)) = IF 2 <= n + 1 THEN (n + 1) - 2 + 1 ELSE 0
        /\ \A i \in 1..((n + 1) - 2 + 1) : SubSeq(q, 2, n + 1)[i] = q[2 + i - 1]
        BY <1>1, <2>2, SubSeqProperties
  <2>4. Len(SubSeq(q, 2, n + 1)) = n
        BY <1>1, <2>3
  <2>5. ASSUME NEW i \in 1..n PROVE SubSeq(q, 2, n + 1)[i] = s[i]
    <3>1. i \in 1..((n + 1) - 2 + 1) /\ 2 + i - 1 = i + 1
          BY <1>1
    <3>2. SubSeq(q, 2, n + 1)[i] = q[2 + i - 1]
          BY <2>3, <3>1
    <3> QED BY <1>4, <3>1, <3>2
  <2> QED BY <2>1, <2>3, <2>4, <2>5, SeqEqual
<1> QED BY <1>2, <1>3, <1>4, <1>5, <1>6 DEF q

LEMMA CaaReadsBack ==
    ASSUME NEW s \in Seq(Chars)
    PROVE  BuildCaa(s) \in Seq(Chars) /\ ParseCaa(BuildCaa(s)) = s
<1> DEFINE e == EscapedValue(s)
           q == Quoted(e)
<1>1. e \in Seq(Chars)
  <2>1. PICK a \in Chars : TRUE
        BY DEF Chars
  <2> QED BY <2>1, EscapedValueAppend
<1>2. Unescape(e) = s
      BY UnescapeEscaped
<1> HIDE DEF e
<1>3. /\ q \in Seq(Chars) /\ Len(q) = Len(e) + 2 /\ q[1] = Quote /\ q[Len(e) + 2] = Quote
      /\ Starts(q) /\ Ends(q) /\ Inside(q) = e
      BY <1>1, QuotedIs
<1>4. Len(e) \in Nat /\ Quote # Space
      BY <1>1, LenProperties DEF Quote, Space
<1> HIDE DEF q
<1>5. Len(q) > 0 /\ Len(q) >= 2 /\ q[Len(q)] = Quote
      BY <1>3, <1>4
<1>6. Trim(q) = q
      BY <1>3, <1>4, <1>5, TrimFixed
<1>7. ParseCaa(q) = Unescape(e)
      BY <1>3, <1>5, <1>6 DEF ParseCaa
<1> QED BY <1>2, <1>3, <1>7 DEF BuildCaa, q, e

LEMMA RankBy ==
    ASSUME NEW S, NEW n \in Nat, NEW h, h[0] = 0,
           \A i \in 1..n : h[i] = h[i - 1] + (IF i \in S THEN 1 ELSE 0)
    PROVE  Rank(S, n) = h[n]
<1> DEFINE below == CHOOSE g : g = [i \in 0..n |-> IF i = 0 THEN 0
                                                   ELSE g[i - 1] + (IF i \in S THEN 1 ELSE 0)]
           k == [i \in 0..n |-> h[i]]
<1>1. Rank(S, n) = below[n]
      BY DEF Rank
<1>2. k = [i \in 0..n |-> IF i = 0 THEN 0 ELSE k[i - 1] + (IF i \in S THEN 1 ELSE 0)]
  <2>1. ASSUME NEW i \in 0..n
        PROVE  k[i] = IF i = 0 THEN 0 ELSE k[i - 1] + (IF i \in S THEN 1 ELSE 0)
    <3>1. CASE i = 0
          BY <3>1
    <3>2. CASE i # 0
      <4>1. i \in 1..n /\ i - 1 \in 0..n
            BY <3>2
      <4>2. h[i] = h[i - 1] + (IF i \in S THEN 1 ELSE 0)
            BY <4>1
      <4> QED BY <3>2, <4>1, <4>2
    <3> QED BY <3>1, <3>2
  <2> QED BY <2>1, Zenon
<1> HIDE DEF k
<1>3. below = [i \in 0..n |-> IF i = 0 THEN 0 ELSE below[i - 1] + (IF i \in S THEN 1 ELSE 0)]
      BY <1>2, Zenon
<1> HIDE DEF below
<1> DEFINE Good == {i \in Nat : i <= n => below[i] = h[i]}
<1>4. 0 \in Good
      BY <1>3
<1>5. ASSUME NEW i \in Nat, i \in Good PROVE i + 1 \in Good
  <2> SUFFICES ASSUME i + 1 <= n PROVE below[i + 1] = h[i + 1]
      OBVIOUS
  <2>1. i + 1 \in 1..n /\ i + 1 \in 0..n /\ i + 1 # 0 /\ (i + 1) - 1 = i /\ i <= n
        OBVIOUS
  <2>2. below[i + 1] = below[(i + 1) - 1] + (IF i + 1 \in S THEN 1 ELSE 0)
        BY <1>3, <2>1
  <2>3. h[i + 1] = h[(i + 1) - 1] + (IF i + 1 \in S THEN 1 ELSE 0)
        BY <2>1, Zenon
  <2>4. below[i] = h[i]
        BY <1>5, <2>1
  <2> QED BY <2>1, <2>2, <2>3, <2>4
<1> HIDE DEF Good
<1>6. n \in Good
      BY <1>4, <1>5, EveryNumber
<1> QED BY <1>1, <1>6 DEF Good

\* A text in quotes without one inside that PowerDNS takes is one section.
LEMMA OneSection ==
    ASSUME NEW s \in Seq(Chars), ~Has(s, Quote), Sections(Quoted(s))
    PROVE  /\ Fences(Quoted(s)) = {1, Len(s) + 2}
           /\ \A i \in 1..(Len(s) + 1) : Rank(Fences(Quoted(s)), i) = 1
           /\ Rank(Fences(Quoted(s)), Len(s) + 2) = 2
<1> DEFINE q == Quoted(s)
           n == Len(s) + 2
           F == Fences(q)
<1>1. /\ Len(s) \in Nat /\ DOMAIN s = 1..Len(s)
      /\ q \in Seq(Chars) /\ Len(q) = n /\ q[1] = Quote /\ q[n] = Quote
      /\ \A i \in 1..Len(s) : q[i + 1] = s[i]
      BY QuotedIs, LenProperties
<1>2. n \in Fences(q) /\ DOMAIN q = 1..n
      BY <1>1, LenProperties DEF Sections
<1> HIDE DEF q
<1>3. 1 \notin Escaped(q)
  <2>1. 1 \in 1..Len(q)
        BY <1>1
  <2>2. 1 \in Escaped(q) => 1 > 1
        BY <1>1, <2>1, EscapedIs, Zenon
  <2> QED BY <2>2
<1>4. 1 \in F /\ 1 \in 1..n
      BY <1>1, <1>2, <1>3 DEF Fences
<1>5. ASSUME NEW i \in 1..n, i # 1, i # n PROVE i \notin F
  <2>1. i - 1 \in 1..Len(s) /\ (i - 1) + 1 = i
        BY <1>1, <1>5
  <2>2. q[i] = s[i - 1]
        BY <1>1, <2>1
  <2>3. s[i - 1] # Quote
        BY <1>1, <2>1 DEF Has
  <2> QED BY <2>2, <2>3 DEF Fences
<1>6. F = {1, n}
      BY <1>2, <1>4, <1>5 DEF Fences
<1> HIDE DEF F
<1> DEFINE h == [i \in 0..n |-> IF i = 0 THEN 0 ELSE IF i = n THEN 2 ELSE 1]
<1>7. h[0] = 0
      BY <1>1
<1>8. \A i \in 1..n : h[i] = h[i - 1] + (IF i \in F THEN 1 ELSE 0)
  <2> TAKE i \in 1..n
  <2>1. i \in 0..n /\ i - 1 \in 0..n /\ n >= 2 /\ i # 0 /\ i - 1 # n
        BY <1>1
  <2>2. CASE i = 1
        BY <1>6, <2>1, <2>2
  <2>3. CASE i = n
        BY <1>6, <2>1, <2>3
  <2>4. CASE i # 1 /\ i # n
        BY <1>6, <2>1, <2>4
  <2> QED BY <2>2, <2>3, <2>4
<1>9. ASSUME NEW i \in 1..n PROVE Rank(F, i) = h[i]
  <2>1. i \in Nat /\ \A j \in 1..i : j \in 1..n
        BY <1>1
  <2> HIDE DEF h
  <2>2. \A j \in 1..i : h[j] = h[j - 1] + (IF j \in F THEN 1 ELSE 0)
        BY <1>8, <2>1
  <2> QED BY <1>7, <2>1, <2>2, RankBy
<1>10. \A i \in 1..(Len(s) + 1) : Rank(F, i) = 1
  <2> TAKE i \in 1..(Len(s) + 1)
  <2>1. i \in 1..n /\ i \in 0..n /\ i # n /\ i # 0
        BY <1>1
  <2> QED BY <1>9, <2>1
<1>11. Rank(F, n) = 2
  <2>1. n \in 1..n /\ n \in 0..n /\ n # 0
        BY <1>1
  <2> QED BY <1>9, <2>1
<1> QED BY <1>6, <1>10, <1>11 DEF F, q

CodeAt(c, i) ==
    IF i \in Fences(c) THEN (IF Rank(Fences(c), i) % 2 = 1 /\ i > 1 THEN <<Space>> ELSE << >>)
    ELSE IF Rank(Fences(c), i) % 2 = 1 THEN <<c[i]>> ELSE << >>

LEMMA CodeParts ==
    ASSUME NEW c \in Seq(Chars), Sections(c)
    PROVE  /\ ParseLua(c) = FlattenSeq([i \in 1..Len(c) |-> CodeAt(c, i)])
           /\ [i \in 1..Len(c) |-> CodeAt(c, i)] \in Seq(Seq(Chars))
           /\ Len([i \in 1..Len(c) |-> CodeAt(c, i)]) = Len(c)
<1>1. Len(c) \in Nat /\ DOMAIN c = 1..Len(c)
      BY LenProperties
<1>2. ASSUME NEW i \in 1..Len(c) PROVE CodeAt(c, i) \in Seq(Chars)
  <2>1. c[i] \in Chars /\ Space \in Chars
        BY ElementOfSeq DEF Chars
  <2>2. << >> \in Seq(Chars) /\ <<c[i]>> \in Seq(Chars) /\ <<Space>> \in Seq(Chars)
        BY <2>1
  <2> QED BY <2>2 DEF CodeAt
<1>3. [i \in 1..Len(c) |-> CodeAt(c, i)] \in [1..Len(c) -> Seq(Chars)]
      BY <1>2
<1>4. /\ [i \in 1..Len(c) |-> CodeAt(c, i)] \in Seq(Seq(Chars))
      /\ Len([i \in 1..Len(c) |-> CodeAt(c, i)]) = Len(c)
      BY <1>1, <1>3, SeqDef
<1>5. ParseLua(c) = FlattenSeq([i \in 1..Len(c) |-> CodeAt(c, i)])
      BY <1>1 DEF ParseLua, CodeAt
<1> QED BY <1>4, <1>5

LEMMA LuaReadsBack ==
    ASSUME NEW s \in Seq(Chars), ~Has(s, Quote), Sections(Quoted(s))
    PROVE  ParseLua(Quoted(s)) = s
<1> DEFINE q == Quoted(s)
           n == Len(s) + 2
           F == Fences(q)
           p == [i \in 1..Len(q) |-> CodeAt(q, i)]
           h == [i \in 0..n |-> IF i = 0 THEN << >> ELSE IF i = n THEN s ELSE SubSeq(q, 2, i)]
<1>1. /\ Len(s) \in Nat
      /\ q \in Seq(Chars) /\ Len(q) = n /\ Inside(q) = s
      BY QuotedIs, LenProperties
<1>2. /\ F = {1, n} /\ (\A i \in 1..(Len(s) + 1) : Rank(F, i) = 1) /\ Rank(F, n) = 2
      BY OneSection
<1>3. /\ ParseLua(q) = FlattenSeq(p) /\ p \in Seq(Seq(Chars)) /\ Len(p) = n
      BY <1>1, CodeParts
<1> HIDE DEF q
<1>4. s = SubSeq(q, 2, n - 1)
      BY <1>1 DEF Inside
<1>5. \A i \in 1..n : p[i] = CodeAt(q, i)
      BY <1>1
<1>6. p[1] = << >> /\ p[n] = << >>
  <2>1. 1 \in 1..n /\ n \in 1..n /\ ~(1 > 1) /\ 1 \in 1..(Len(s) + 1) /\ ~(2 % 2 = 1)
        BY <1>1
  <2> QED BY <1>2, <1>5, <2>1 DEF CodeAt
<1>7. ASSUME NEW i \in 2..(n - 1) PROVE p[i] = <<q[i]>>
  <2>1. i \in 1..n /\ i \notin F /\ i \in 1..(Len(s) + 1) /\ 1 % 2 = 1
        BY <1>1, <1>2
  <2> QED BY <1>2, <1>5, <2>1 DEF CodeAt
<1> HIDE DEF p, F
<1>8. h[0] = << >> /\ h[n] = s
      BY <1>1
<1>9. \A i \in 1..n : h[i] = h[i - 1] \o p[i]
  <2> TAKE i \in 1..n
  <2>1. i \in 0..n /\ i - 1 \in 0..n /\ n >= 2 /\ i # 0 /\ i - 1 # n
        BY <1>1
  <2>2. CASE i = 1
    <3>1. h[1] = SubSeq(q, 2, 1) /\ h[1 - 1] = << >>
          BY <2>1, <2>2
    <3>2. SubSeq(q, 2, 1) = << >>
          BY SubSeqEmpty
    <3> HIDE DEF h
    <3>3. << >> \o << >> = << >>
          OBVIOUS
    <3> QED BY <1>6, <2>2, <3>1, <3>2, <3>3
  <2>3. CASE i = n
    <3>1. h[n - 1] = SubSeq(q, 2, n - 1)
      <4>1. CASE n - 1 = 0
            BY <2>1, <4>1
      <4>2. CASE n - 1 # 0
            BY <2>1, <2>3, <4>2
      <4> QED BY <4>1, <4>2
    <3> HIDE DEF h
    <3>2. s \o << >> = s
          BY ConcatEmptySeq
    <3> QED BY <1>4, <1>6, <1>8, <2>3, <3>1, <3>2
  <2>4. CASE i # 1 /\ i # n
    <3>1. i \in 2..(n - 1) /\ i - 1 # 0
          BY <2>1, <2>4
    <3>2. h[i] = SubSeq(q, 2, i) /\ h[i - 1] = SubSeq(q, 2, i - 1)
          BY <2>1, <2>4, <3>1
    <3> HIDE DEF h
    <3>3. 2 \in 1..Len(q) /\ i \in 2..Len(q)
          BY <1>1, <2>1, <2>4
    <3>4. SubSeq(q, 2, i) = SubSeq(q, 2, i - 1) \o <<q[i]>>
          BY <1>1, <3>3, SubSeqRecursiveSecond
    <3> QED BY <1>7, <3>1, <3>2, <3>4
  <2> QED BY <2>2, <2>3, <2>4
<1> HIDE DEF h
<1>10. FlattenSeq(p) = h[n]
      BY <1>3, <1>8, <1>9, FlattenBy
<1> QED BY <1>3, <1>8, <1>10 DEF q

LEMMA LuaType == ASSUME NEW c \in Seq(Chars) PROVE ParseLua(c) \in Seq(Chars)
<1>1. CASE Sections(c)
      BY <1>1, CodeParts, FlattenType
<1>2. CASE ~Sections(c)
      BY <1>2 DEF ParseLua
<1> QED BY <1>1, <1>2

\* An accepted code is shown as it was typed, on one line, or not accepted again.
LEMMA LuaShown ==
    ASSUME NEW s \in Seq(Chars), CodeAccepted(s)
    PROVE  ParseLua(BuildLua(s)) = Trim(s) \/ ~CodeAccepted(ParseLua(BuildLua(s)))
<1> DEFINE t == Trim(s)
<1>1. t \in Seq(Chars)
      BY TrimEdges
<1>2. ~Has(t, Quote)
  <2>1. DOMAIN t = 1..Len(t) /\ DOMAIN s = 1..Len(s)
        BY <1>1, LenProperties
  <2>2. ASSUME NEW k \in 1..Len(t) PROVE t[k] # Quote
    <3>1. PICK i \in 1..Len(s) : t[k] = s[i]
          BY TrimEdges
    <3> QED BY <2>1, <3>1 DEF CodeAccepted, Has
  <2> HIDE DEF t
  <2> QED BY <2>1, <2>2 DEF Has
<1> HIDE DEF t
<1>3. CASE Sections(Quoted(t))
  <2>1. ParseLua(Quoted(t)) = t
        BY <1>1, <1>2, <1>3, LuaReadsBack
  <2> QED BY <2>1 DEF BuildLua, t
<1>4. CASE ~Sections(Quoted(t))
  <2>1. ParseLua(Quoted(t)) = Quoted(t)
        BY <1>4 DEF ParseLua
  <2>2. 1 \in DOMAIN Quoted(t) /\ Quoted(t)[1] = Quote
    <3>1. Quoted(t) \in Seq(Chars) /\ Len(Quoted(t)) = Len(t) + 2 /\ Len(t) \in Nat
          BY <1>1, QuotedIs, LenProperties
    <3>2. 1 \in 1..Len(Quoted(t)) /\ DOMAIN Quoted(t) = 1..Len(Quoted(t))
          BY <3>1, LenProperties
    <3> QED BY <1>1, <3>2, QuotedIs
  <2>3. Has(Quoted(t), Quote)
        BY <2>2 DEF Has
  <2> QED BY <2>1, <2>3 DEF BuildLua, CodeAccepted, t
<1> QED BY <1>3, <1>4

LEMMA ParseType ==
    ASSUME NEW ty \in Types, NEW c \in Seq(Chars)
    PROVE  Parse(ty, c) \in Seq(Chars)
<1>1. Inside(c) \in Seq(Chars)
  <2>1. Len(c) \in Nat
        BY LenProperties
  <2>2. \A i \in 2..(Len(c) - 1) : c[i] \in Chars
    <3> TAKE i \in 2..(Len(c) - 1)
    <3>1. i \in 1..Len(c)
          BY <2>1
    <3> QED BY <3>1, ElementOfSeq
  <2>3. 2 \in Int /\ Len(c) - 1 \in Int
        BY <2>1
  <2> QED BY <2>2, <2>3, SubSeqProperties DEF Inside
<1>2. ParseTxt(c) \in Seq(Chars)
      BY <1>1 DEF ParseTxt
<1>3. ParseCaa(c) \in Seq(Chars)
  <2> DEFINE v == Trim(c)
  <2>1. v \in Seq(Chars)
        BY TrimEdges
  <2> HIDE DEF v
  <2>2. Inside(v) \in Seq(Chars)
    <3>1. Len(v) \in Nat
          BY <2>1, LenProperties
    <3>2. \A i \in 2..(Len(v) - 1) : v[i] \in Chars
      <4> TAKE i \in 2..(Len(v) - 1)
      <4>1. i \in 1..Len(v)
            BY <3>1
      <4> QED BY <2>1, <4>1, ElementOfSeq
    <3>3. 2 \in Int /\ Len(v) - 1 \in Int
          BY <3>1
    <3> QED BY <3>2, <3>3, SubSeqProperties DEF Inside
  <2>3. ParseCaa(c) = Unescape(IF Len(v) >= 2 /\ Starts(v) /\ Ends(v) THEN Inside(v) ELSE v)
        BY DEF ParseCaa, v
  <2> QED BY <2>1, <2>2, <2>3, UnescapeParts
<1>4. ParseLua(c) \in Seq(Chars)
      BY LuaType
<1>5. ty \in {"CNAME", "MX", "RDATA", "TXT", "CAA", "LUA"}
      BY DEF Types
<1> QED BY <1>2, <1>3, <1>4, <1>5 DEF Parse

LEMMA BuildType ==
    ASSUME NEW ty \in Types, NEW s \in Seq(Chars)
    PROVE  Build(ty, s) \in Seq(Chars)
<1>1. BuildHost(s) \in Seq(Chars)
  <2>1. Append(s, Dot) \in Seq(Chars)
        BY DEF Chars
  <2> QED BY <2>1 DEF BuildHost
<1>2. BuildTxt(s) \in Seq(Chars)
      BY QuotedIs DEF BuildTxt
<1>3. BuildCaa(s) \in Seq(Chars)
      BY CaaReadsBack
<1>4. BuildRdata(s) \in Seq(Chars) /\ BuildLua(s) \in Seq(Chars)
      BY TrimEdges, QuotedIs DEF BuildRdata, BuildLua
<1>5. ty \in {"CNAME", "MX", "RDATA", "TXT", "CAA", "LUA"}
      BY DEF Types
<1> QED BY <1>1, <1>2, <1>3, <1>4, <1>5 DEF Build

\* The content of a record is what the dialog made of an accepted text.
MadeHere ==
    stored # << >> => \E s \in Seq(Chars) : /\ Accepted(type, s) /\ Taken(type, Build(type, s))
                                            /\ stored = Build(type, s)
FormatInv == FormatTypeOK /\ MadeHere

LEMMA FormatInitInv == FormatInit => FormatInv
BY DEF FormatInit, FormatInv, FormatTypeOK, MadeHere

LEMMA FormatStep == FormatInv /\ [FormatNext]_formatVars => FormatInv'
<1> SUFFICES ASSUME FormatInv, [FormatNext]_formatVars PROVE FormatInv'
    OBVIOUS
<1>1. type \in Types /\ text \in Seq(Chars) /\ stored \in Seq(Chars) /\ MadeHere
      BY DEF FormatInv, FormatTypeOK
<1>2. ASSUME NEW c \in Chars, TypeChar(c) PROVE FormatInv'
  <2>1. text' \in Seq(Chars) /\ type' \in Types /\ stored' = << >>
        BY <1>1, <1>2 DEF TypeChar
  <2> QED BY <2>1 DEF FormatInv, FormatTypeOK, MadeHere
<1>3. ASSUME NEW ty \in Types, ChangeRecordType(ty) PROVE FormatInv'
  <2>1. text' = << >> /\ type' \in Types /\ stored' = << >>
        BY <1>3 DEF ChangeRecordType
  <2> QED BY <2>1 DEF FormatInv, FormatTypeOK, MadeHere
<1>4. CASE Save
  <2>1. /\ Accepted(type, text) /\ Taken(type, Build(type, text))
        /\ stored' = Build(type, text) /\ type' = type /\ text' = text
        BY <1>4 DEF Save
  <2>2. stored' \in Seq(Chars)
        BY <1>1, <2>1, BuildType
  <2> QED BY <1>1, <2>1, <2>2 DEF FormatInv, FormatTypeOK, MadeHere
<1>5. CASE Reopen
  <2>1. text' = Parse(type, stored) /\ type' = type /\ stored' = stored
        BY <1>5 DEF Reopen
  <2>2. text' \in Seq(Chars)
        BY <1>1, <2>1, ParseType
  <2> QED BY <1>1, <2>1, <2>2 DEF FormatInv, FormatTypeOK, MadeHere
<1>6. CASE UNCHANGED formatVars
      BY <1>1, <1>6 DEF formatVars, FormatInv, FormatTypeOK, MadeHere
<1> QED BY <1>2, <1>3, <1>4, <1>5, <1>6 DEF FormatNext

LEMMA UnchangedInv == FormatInv => UnchangedStays
<1> SUFFICES ASSUME FormatInv, stored # << >>,
                    Accepted(type, Parse(type, stored)),
                    Taken(type, Build(type, Parse(type, stored))),
                    ~(type = "TXT" /\ Starts(Parse(type, stored)))
             PROVE  Build(type, Parse(type, stored)) = stored
    BY DEF UnchangedStays
<1>1. type \in {"CNAME", "MX", "RDATA", "TXT", "CAA", "LUA"} /\ stored \in Seq(Chars)
      BY DEF FormatInv, FormatTypeOK, Types
<1>2. PICK s \in Seq(Chars) : /\ Accepted(type, s) /\ Taken(type, Build(type, s))
                              /\ stored = Build(type, s)
      BY DEF FormatInv, MadeHere
<1>3. CASE type \in {"CNAME", "MX"}
  <2>1. stored = BuildHost(s) /\ Parse(type, stored) = stored /\ Build(type, stored) = BuildHost(stored)
        BY <1>2, <1>3 DEF Build, Parse
  <2>2. Len(stored) > 0 /\ stored[Len(stored)] = Dot
    <3>1. CASE Len(s) > 0 /\ s[Len(s)] = Dot
          BY <2>1, <3>1 DEF BuildHost
    <3>2. CASE ~(Len(s) > 0 /\ s[Len(s)] = Dot)
      <4>1. stored = Append(s, Dot)
            BY <2>1, <3>2 DEF BuildHost
      <4>2. Dot \in Chars /\ Len(s) \in Nat
            BY LenProperties DEF Chars
      <4> QED BY <4>1, <4>2, AppendProperties
    <3> QED BY <3>1, <3>2
  <2> QED BY <2>1, <2>2 DEF BuildHost
<1>4. CASE type = "RDATA"
  <2>1. stored = Trim(s) /\ Build(type, Parse(type, stored)) = Trim(stored)
        BY <1>2, <1>4 DEF Build, Parse, BuildRdata
  <2> QED BY <2>1, TrimTrim
<1>5. CASE type = "TXT"
  <2>1. stored = BuildTxt(s) /\ Parse(type, stored) = ParseTxt(stored) /\ Sections(stored)
        BY <1>2, <1>5 DEF Build, Parse, Taken
  <2>2. Starts(stored) /\ Ends(stored)
        BY <2>1 DEF Sections
  <2>3. Parse(type, stored) = Inside(stored)
        BY <2>1, <2>2 DEF ParseTxt
  <2> DEFINE x == Inside(stored)
  <2>4. Build(type, x) = Quoted(x)
        BY <1>5, <2>3 DEF Build, BuildTxt
  <2>5. Len(stored) \in Nat /\ Len(stored) > 0
        BY <1>1, <2>2, LenProperties DEF Starts
  <2>6. CASE Len(stored) = 1
    <3>1. x = << >>
      <4>1. SubSeq(stored, 2, 0) = << >>
            BY SubSeqEmpty
      <4>2. Len(stored) - 1 = 0
            BY <2>6
      <4> QED BY <4>1, <4>2 DEF Inside
    <3> QED BY <2>3, <3>1, TrimNone DEF Accepted
  <2>7. CASE Len(stored) # 1
    <3>1. Len(stored) >= 2
      <4> DEFINE n == Len(stored)
      <4>1. n \in Nat /\ n > 0 /\ n # 1
            BY <2>5, <2>7
      <4> HIDE DEF n
      <4>2. n >= 2
            BY <4>1
      <4> QED BY <4>2 DEF n
    <3>2. \A i \in 2..(Len(stored) - 1) : stored[i] \in Chars
      <4> TAKE i \in 2..(Len(stored) - 1)
      <4>1. i \in 1..Len(stored)
            BY <2>5
      <4> QED BY <1>1, <4>1, ElementOfSeq
    <3>3. /\ x \in Seq(Chars)
          /\ Len(x) = IF 2 <= Len(stored) - 1 THEN (Len(stored) - 1) - 2 + 1 ELSE 0
          /\ \A i \in 1..((Len(stored) - 1) - 2 + 1) : x[i] = stored[2 + i - 1]
      <4>1. 2 \in Int /\ Len(stored) - 1 \in Int
            BY <2>5
      <4> QED BY <3>2, <4>1, SubSeqProperties DEF Inside
    <3> HIDE DEF x
    <3>4. Len(x) = Len(stored) - 2
      <4>1. Len(x) = IF 2 <= Len(stored) - 1 THEN (Len(stored) - 1) - 2 + 1 ELSE 0
            BY <3>3
      <4> DEFINE n == Len(stored)
      <4>2. n \in Nat /\ n >= 2
            BY <2>5, <3>1
      <4> HIDE DEF n
      <4>3. (IF 2 <= n - 1 THEN (n - 1) - 2 + 1 ELSE 0) = n - 2
            BY <4>2
      <4> QED BY <4>1, <4>3 DEF n
    <3>5. /\ Quoted(x) \in Seq(Chars) /\ Len(Quoted(x)) = Len(x) + 2
          /\ Quoted(x)[1] = Quote /\ Quoted(x)[Len(x) + 2] = Quote
          /\ \A i \in 1..Len(x) : Quoted(x)[i + 1] = x[i]
          BY <3>3, QuotedIs
    <3>6. Len(Quoted(x)) = Len(stored)
          BY <2>5, <3>1, <3>4, <3>5
    <3>7. ASSUME NEW i \in 1..Len(stored) PROVE Quoted(x)[i] = stored[i]
      <4>1. CASE i = 1
            BY <2>2, <3>5, <4>1 DEF Starts
      <4>2. CASE i = Len(stored)
        <5>1. Len(x) + 2 = Len(stored)
              BY <2>5, <3>1, <3>4
        <5> QED BY <2>2, <3>5, <4>2, <5>1 DEF Ends
      <4>3. CASE i # 1 /\ i # Len(stored)
        <5>1. i - 1 \in 1..Len(x) /\ i - 1 \in 1..((Len(stored) - 1) - 2 + 1)
              BY <2>5, <3>1, <3>4, <4>3
        <5>2. (i - 1) + 1 = i /\ 2 + (i - 1) - 1 = i
              OBVIOUS
        <5>3. Quoted(x)[(i - 1) + 1] = x[i - 1]
              BY <3>5, <5>1
        <5>4. x[i - 1] = stored[2 + (i - 1) - 1]
              BY <3>3, <5>1
        <5> QED BY <5>2, <5>3, <5>4
      <4> QED BY <4>1, <4>2, <4>3
    <3>8. Quoted(x) = stored
          BY <1>1, <3>5, <3>6, <3>7, SeqEqual
    <3> QED BY <2>3, <2>4, <3>8 DEF x
  <2> QED BY <2>6, <2>7
<1>6. CASE type = "CAA"
  <2>1. stored = BuildCaa(s) /\ Parse(type, stored) = ParseCaa(stored)
        BY <1>2, <1>6 DEF Build, Parse
  <2>2. Parse(type, stored) = s
        BY <2>1, CaaReadsBack
  <2> QED BY <1>2, <2>2
<1>7. CASE type = "LUA"
  <2>1. /\ stored = BuildLua(s) /\ Parse(type, stored) = ParseLua(stored)
        /\ CodeAccepted(s) /\ CodeAccepted(ParseLua(stored))
        BY <1>2, <1>7 DEF Build, Parse, Accepted
  <2>2. ParseLua(stored) = Trim(s)
        BY <2>1, LuaShown
  <2>3. Build(type, Trim(s)) = Quoted(Trim(Trim(s)))
        BY <1>7 DEF Build, BuildLua
  <2> QED BY <2>1, <2>2, <2>3, TrimTrim DEF BuildLua
<1> QED BY <1>1, <1>3, <1>4, <1>5, <1>6, <1>7

LEMMA RoundTrip == FormatInv => FormatsRoundTrip
<1> SUFFICES ASSUME FormatInv PROVE TypedIsShown
    BY UnchangedInv DEF FormatsRoundTrip
<1>1. text \in Seq(Chars)
      BY DEF FormatInv, FormatTypeOK
<1>2. ParseCaa(BuildCaa(text)) = text
      BY <1>1, CaaReadsBack
<1>3. CodeAccepted(text) =>
        ParseLua(BuildLua(text)) = Trim(text) \/ ~CodeAccepted(ParseLua(BuildLua(text)))
      BY <1>1, LuaShown
<1> QED BY <1>2, <1>3 DEF TypedIsShown

=============================================================================
