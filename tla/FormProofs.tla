------------------------------ MODULE FormProofs ------------------------------
(***************************************************************************)
(* Theorems about the forms, lists and cards of MCPages, for any sets of   *)
(* accounts, zones, values, fields, entries, items and keys and for any    *)
(* bounds: what a form stores is what it showed, a page shows what became  *)
(* of its requests, a new secret stays on the screen, and a rollover keeps *)
(* the chain of trust.  The invariant of each page comes first, the pages  *)
(* side by side at the end.                                                *)
(***************************************************************************)
EXTENDS PageProofs, MCPages, FiniteSetTheorems

-----------------------------------------------------------------------------
(* UsersPage: a zone that had a grant and is not chosen was unticked, in   *)
(* the editor and in what it sends.                                        *)

UntickedOnly(u) ==
    \A z \in Zones : u.base[z] # "none" /\ u.chosen[z] = "none" => z \in u.unticked

UsersInv == UsersTypeOK /\ UntickedOnly(editor) /\ UntickedOnly(save)

LEMMA EmptyType == Empty \in Grants /\ \A z \in Zones : Empty[z] = "none"
BY DEF Empty, Grants, Grant

LEMMA NoUserForms ==
    /\ NoEditor \in [user : Users \cup {Nobody}, chosen : Grants, base : Grants,
                     unticked : SUBSET Zones, error : BOOLEAN]
    /\ NoZoneSave \in [at : {"none", "sent", "done", "failed"}, user : Users \cup {Nobody},
                       chosen : Grants, base : Grants, unticked : SUBSET Zones]
    /\ UntickedOnly(NoEditor) /\ UntickedOnly(NoZoneSave)
<1>1. NoEditor \in [user : Users \cup {Nobody}, chosen : Grants, base : Grants,
                     unticked : SUBSET Zones, error : BOOLEAN]
      BY EmptyType DEF NoEditor
<1>2. NoZoneSave \in [at : {"none", "sent", "done", "failed"}, user : Users \cup {Nobody},
                       chosen : Grants, base : Grants, unticked : SUBSET Zones]
      BY EmptyType DEF NoZoneSave
<1>3. UntickedOnly(NoEditor)
      BY EmptyType DEF UntickedOnly, NoEditor
<1>4. UntickedOnly(NoZoneSave)
      BY EmptyType DEF UntickedOnly, NoZoneSave
<1> QED BY <1>1, <1>2, <1>3, <1>4

LEMMA UsersInitInv == UsersInit => UsersInv
<1> SUFFICES ASSUME UsersInit PROVE UsersInv
    OBVIOUS
<1>1. rows \in [grants : [Users -> Grants], found : SUBSET Zones, loaded : BOOLEAN,
                error : BOOLEAN]
      BY EmptyType DEF UsersInit
<1>2. otherGrants \in 0..GrantOthers
      BY UsersAssumption DEF UsersInit
<1> QED BY <1>1, <1>2, NoUserForms DEF UsersInit, UsersInv, UsersTypeOK

LEMMA OpenZoneEditorInv ==
    ASSUME UsersInv, NEW u \in Users, OpenZoneEditor(u)
    PROVE  UsersInv'
<1>1. rows.grants[u] \in Grants
      BY DEF UsersInv, UsersTypeOK
<1> QED BY <1>1 DEF UsersInv, UsersTypeOK, UntickedOnly, OpenZoneEditor, ChosenFrom

LEMMA ToggleZoneInv ==
    ASSUME UsersInv, NEW z \in Zones, ToggleZone(z)
    PROVE  UsersInv'
<1> DEFINE perm == IF editor.chosen[z] = "none" THEN "manage" ELSE "none"
           zones == IF editor.chosen[z] = "none" THEN editor.unticked \ {z}
                    ELSE editor.unticked \cup {z}
<1>1. /\ editor.chosen \in Grants /\ editor.base \in Grants /\ editor.unticked \subseteq Zones
      /\ editor \in [user : Users \cup {Nobody}, chosen : Grants, base : Grants,
                     unticked : SUBSET Zones, error : BOOLEAN]
      BY DEF UsersInv, UsersTypeOK
<1>2. editor' = [editor EXCEPT !.chosen = [@ EXCEPT ![z] = perm], !.unticked = zones]
      BY <1>1 DEF ToggleZone, Grants
<1>3. perm \in Grant /\ zones \subseteq Zones
      BY <1>1 DEF Grant
<1>4. [editor.chosen EXCEPT ![z] = perm] \in Grants
      BY <1>1, <1>3 DEF Grants
<1>5. /\ editor'.chosen = [editor.chosen EXCEPT ![z] = perm]
      /\ editor'.unticked = zones /\ editor'.base = editor.base
      /\ editor' \in [user : Users \cup {Nobody}, chosen : Grants, base : Grants,
                      unticked : SUBSET Zones, error : BOOLEAN]
      BY <1>1, <1>2, <1>3, <1>4
<1>6. UntickedOnly(editor)'
  <2> SUFFICES ASSUME NEW y \in Zones, editor.base[y] # "none", editor'.chosen[y] = "none"
               PROVE  y \in zones
      BY <1>5 DEF UntickedOnly
  <2>1. CASE y = z
        BY <2>1, <1>1, <1>5 DEF Grants
  <2>2. CASE y # z
        BY <2>2, <1>1, <1>5 DEF Grants, UsersInv, UntickedOnly
  <2> QED BY <2>1, <2>2
<1> QED BY <1>5, <1>6 DEF UsersInv, UsersTypeOK, UntickedOnly, ToggleZone

LEMMA SetZonePermissionInv ==
    ASSUME UsersInv, NEW z \in Zones, NEW p \in Grant, SetZonePermission(z, p)
    PROVE  UsersInv'
<1>1. /\ editor.chosen \in Grants
      /\ editor \in [user : Users \cup {Nobody}, chosen : Grants, base : Grants,
                     unticked : SUBSET Zones, error : BOOLEAN]
      BY DEF UsersInv, UsersTypeOK
<1>2. editor' = [editor EXCEPT !.chosen = [@ EXCEPT ![z] = p]] /\ p # "none"
      BY DEF SetZonePermission
<1>3. [editor.chosen EXCEPT ![z] = p] \in Grants
      BY <1>1 DEF Grants
<1>4. /\ editor'.chosen = [editor.chosen EXCEPT ![z] = p]
      /\ editor'.unticked = editor.unticked /\ editor'.base = editor.base
      /\ editor' \in [user : Users \cup {Nobody}, chosen : Grants, base : Grants,
                      unticked : SUBSET Zones, error : BOOLEAN]
      BY <1>1, <1>2, <1>3
<1>5. UntickedOnly(editor)'
  <2> SUFFICES ASSUME NEW y \in Zones, editor.base[y] # "none", editor'.chosen[y] = "none"
               PROVE  y \in editor.unticked
      BY <1>4 DEF UntickedOnly
  <2>1. y # z
        BY <1>1, <1>2, <1>4 DEF Grants
  <2> QED BY <2>1, <1>1, <1>4 DEF Grants, UsersInv, UntickedOnly
<1> QED BY <1>4, <1>5 DEF UsersInv, UsersTypeOK, UntickedOnly, SetZonePermission

LEMMA SaveZonesInv == UsersInv /\ SaveZones => UsersInv'
<1> SUFFICES ASSUME UsersInv, SaveZones PROVE UsersInv'
    OBVIOUS
<1>1. /\ editor \in [user : Users \cup {Nobody}, chosen : Grants, base : Grants,
                     unticked : SUBSET Zones, error : BOOLEAN]
      /\ editor' = [editor EXCEPT !.error = FALSE]
      BY DEF UsersInv, UsersTypeOK, SaveZones
<1>2. /\ editor'.chosen = editor.chosen /\ editor'.base = editor.base
      /\ editor'.unticked = editor.unticked
      /\ editor' \in [user : Users \cup {Nobody}, chosen : Grants, base : Grants,
                      unticked : SUBSET Zones, error : BOOLEAN]
      BY <1>1
<1>3. /\ save'.chosen = editor.chosen /\ save'.base = editor.base
      /\ save'.unticked = editor.unticked
      /\ save' \in [at : {"none", "sent", "done", "failed"}, user : Users \cup {Nobody},
                    chosen : Grants, base : Grants, unticked : SUBSET Zones]
      BY <1>1 DEF SaveZones
<1> QED BY <1>2, <1>3 DEF UsersInv, UsersTypeOK, UntickedOnly, SaveZones

LEMMA UpdateUserZonesInv == UsersInv /\ UpdateUserZones => UsersInv'
<1> SUFFICES ASSUME UsersInv, UpdateUserZones PROVE UsersInv'
    OBVIOUS
<1>1. /\ save.chosen \in Grants /\ grants \in [Users -> Grants]
      /\ save \in [at : {"none", "sent", "done", "failed"}, user : Users \cup {Nobody},
                   chosen : Grants, base : Grants, unticked : SUBSET Zones]
      BY DEF UsersInv, UsersTypeOK
<1>2. grants' \in [Users -> Grants]
      BY <1>1 DEF UpdateUserZones
<1>3. /\ save'.chosen = save.chosen /\ save'.base = save.base
      /\ save'.unticked = save.unticked
      /\ save' \in [at : {"none", "sent", "done", "failed"}, user : Users \cup {Nobody},
                    chosen : Grants, base : Grants, unticked : SUBSET Zones]
      BY <1>1 DEF UpdateUserZones
<1> QED BY <1>2, <1>3 DEF UsersInv, UsersTypeOK, UntickedOnly, UpdateUserZones

LEMMA SaveAnsweredInv == UsersInv /\ SaveAnswered => UsersInv'
<1> SUFFICES ASSUME UsersInv, SaveAnswered PROVE UsersInv'
    OBVIOUS
<1>1. /\ save' = NoZoneSave
      /\ \/ editor' = NoEditor
         \/ editor' = [editor EXCEPT !.error = editor.user # Nobody]
      BY DEF SaveAnswered
<1>2. CASE editor' = NoEditor
      BY <1>1, <1>2, NoUserForms DEF UsersInv, UsersTypeOK, UntickedOnly, SaveAnswered
<1>3. CASE editor' = [editor EXCEPT !.error = editor.user # Nobody]
  <2>1. /\ editor' \in [user : Users \cup {Nobody}, chosen : Grants, base : Grants,
                        unticked : SUBSET Zones, error : BOOLEAN]
        /\ editor'.chosen = editor.chosen /\ editor'.base = editor.base
        /\ editor'.unticked = editor.unticked
        BY <1>3 DEF UsersInv, UsersTypeOK
  <2> QED BY <1>1, <2>1, NoUserForms DEF UsersInv, UsersTypeOK, UntickedOnly, SaveAnswered
<1> QED BY <1>1, <1>2, <1>3

LEMMA UsersStep == UsersInv /\ [UsersNext]_usersVars => UsersInv'
<1> SUFFICES ASSUME UsersInv, [UsersNext]_usersVars PROVE UsersInv'
    OBVIOUS
<1>1. ASSUME NEW found \in SUBSET Zones, NEW ok \in BOOLEAN, LoadData(found, ok)
      PROVE  UsersInv'
      BY <1>1 DEF UsersInv, UsersTypeOK, UntickedOnly, LoadData
<1>2. ASSUME NEW u \in Users, ChangeAccount(u) PROVE UsersInv'
      BY <1>2 DEF UsersInv, UsersTypeOK, UntickedOnly, ChangeAccount
<1>3. ASSUME NEW ok \in BOOLEAN, AccountChanged(ok) PROVE UsersInv'
      BY <1>3 DEF UsersInv, UsersTypeOK, UntickedOnly, AccountChanged
<1>4. ASSUME OpenNewUser \/ CloseNewUser \/ SubmitNewUser
             \/ \E ok \in BOOLEAN : NewUserAnswered(ok)
      PROVE  UsersInv'
      BY <1>4 DEF UsersInv, UsersTypeOK, UntickedOnly, OpenNewUser, CloseNewUser,
                  SubmitNewUser, NewUserAnswered
<1>5. CASE CloseZoneEditor
      BY <1>5, NoUserForms DEF UsersInv, UsersTypeOK, UntickedOnly, CloseZoneEditor
<1>6. CASE ZoneSaveFails
      BY <1>6 DEF UsersInv, UsersTypeOK, UntickedOnly, ZoneSaveFails
<1>7. ASSUME NEW u \in Users, NEW z \in Zones, NEW p \in Grant, OtherGrants(u, z, p)
      PROVE  UsersInv'
  <2>1. grants \in [Users -> Grants] /\ grants[u] \in Grants
        BY DEF UsersInv, UsersTypeOK
  <2>2. [grants[u] EXCEPT ![z] = p] \in Grants
        BY <2>1 DEF Grants
  <2>3. grants' = [grants EXCEPT ![u] = [grants[u] EXCEPT ![z] = p]]
        BY <1>7, <2>1 DEF OtherGrants
  <2>4. grants' \in [Users -> Grants]
        BY <2>1, <2>2, <2>3
  <2>5. otherGrants' \in 0..GrantOthers
        BY <1>7, UsersAssumption DEF OtherGrants, UsersInv, UsersTypeOK
  <2> QED BY <1>7, <2>4, <2>5 DEF UsersInv, UsersTypeOK, UntickedOnly, OtherGrants
<1>8. CASE UNCHANGED usersVars
      BY <1>8 DEF UsersInv, UsersTypeOK, UntickedOnly, usersVars
<1> QED BY <1>1, <1>2, <1>3, <1>4, <1>5, <1>6, <1>7, <1>8, OpenZoneEditorInv, ToggleZoneInv,
           SetZonePermissionInv, SaveZonesInv, UpdateUserZonesInv, SaveAnsweredInv
        DEF UsersNext

LEMMA UsersTake == UsersInv /\ [UsersNext]_usersVars => TakesOnlyUnticked
<1> SUFFICES ASSUME UsersInv, [UsersNext]_usersVars, save.at = "sent", save'.at = "done"
             PROVE  \A z \in Zones : /\ grants[save.user][z] # "none"
                                     /\ grants'[save.user][z] = "none"
                                     /\ save.base[z] # "none"
                                     => z \in save.unticked
    BY DEF TakesOnlyUnticked
<1>1. save' # save /\ (save' = [save EXCEPT !.at = "failed"] => save'.at = "failed")
      BY DEF UsersInv, UsersTypeOK
<1>2. UpdateUserZones
      BY <1>1 DEF NoZoneSave, UsersNext, usersVars, LoadData, ChangeAccount, OpenZoneEditor, AccountChanged,
         NewUserAnswered, OpenNewUser, CloseNewUser, SubmitNewUser, CloseZoneEditor, SaveZones,
         Saving, ZoneSaveFails, SaveAnswered, ToggleZone, SetZonePermission, OtherGrants
<1>3. \/ ~(save.user \in Users)
      \/ grants'[save.user] = save.chosen
      BY <1>2 DEF UpdateUserZones, UsersInv, UsersTypeOK
<1>4. save.user \notin Users => grants' = grants
      BY <1>2 DEF UpdateUserZones, UsersInv, UsersTypeOK
<1> QED BY <1>3, <1>4 DEF UsersInv, UntickedOnly

-----------------------------------------------------------------------------
(* BulkEditor: under a ticked box stand the removals it was ticked for; a  *)
(* new preview, and an editor mounted again, take the tick away.           *)

TickIsOfThePlan == modal.tick => Removals \subseteq seen

BulkInv == BulkTypeOK /\ TickIsOfThePlan

OpenedType == [step : {"closed", "text", "preview"}, flow : Flows,
               values : SUBSET BulkVals, sync : BOOLEAN, plan : Plans]
ModalType == [step : {"closed", "text", "preview"}, values : SUBSET BulkVals,
              sync : BOOLEAN, plan : Plans,
              tick : BOOLEAN, busy : BOOLEAN, again : BOOLEAN, issues : BOOLEAN]

LEMMA MountType ==
    ASSUME NEW o \in OpenedType
    PROVE  Mount(o) \in ModalType /\ Mount(o).tick = FALSE
BY DEF Mount, OpenedType, ModalType

LEMMA NotOpenedType ==
    /\ NoPlan \in Plans /\ NotOpened \in OpenedType
    /\ NoPreview \in [from : {"none", "bar", "modal"}, flow : Flows, values : SUBSET BulkVals]
<1>1. NoPlan \in Plans
      BY DEF NoPlan, Plans
<1> QED BY <1>1 DEF NotOpened, OpenedType, NoPreview, Flows

LEMMA PlannedType ==
    ASSUME BulkTypeOK, NEW flow \in Flows, NEW sync \in BOOLEAN, NEW vals \in SUBSET BulkVals
    PROVE  Planned(flow, sync, vals) \in Plans
<1>1. rrset \in SUBSET BulkVals
      BY DEF BulkTypeOK
<1>2. Result(flow, sync, vals) \in SUBSET BulkVals
      BY <1>1 DEF Result, Flows
<1>3. (Result(flow, sync, vals) # rrset \/ (flow \in {"flag", "ttl"} /\ vals \cap rrset # {}))
          \in BOOLEAN
      OBVIOUS
<1> QED BY <1>1, <1>2, <1>3 DEF Planned, Plans

LEMMA BulkTyped ==
    ASSUME BulkInv
    PROVE  /\ opened \in OpenedType /\ modal \in ModalType /\ BulkTypeOK
           /\ preview \in [from : {"none", "bar", "modal"}, flow : Flows, values : SUBSET BulkVals]
BY DEF BulkInv, BulkTypeOK, OpenedType, ModalType

(* An editor that is mounted anew has nothing ticked.                      *)

LEMMA OpenInv ==
    ASSUME BulkInv, NEW o \in OpenedType, Open(o),
           rrset' \subseteq BulkVals, selected' \subseteq BulkVals,
           preview' \in [from : {"none", "bar", "modal"}, flow : Flows, values : SUBSET BulkVals],
           UNCHANGED <<foreign, records, filter, seen>>
    PROVE  BulkInv'
<1>1. opened' \in OpenedType /\ modal' \in ModalType /\ modal'.tick = FALSE
      BY MountType DEF Open
<1> QED BY <1>1 DEF BulkInv, BulkTypeOK, TickIsOfThePlan, OpenedType, ModalType

LEMMA ReloadInv ==
    ASSUME BulkInv, NEW silent \in BOOLEAN, Reload(silent)
    PROVE  BulkInv'
<1>1. /\ rrset \subseteq BulkVals /\ opened \in OpenedType /\ modal \in ModalType
      /\ preview \in [from : {"none", "bar", "modal"}, flow : Flows, values : SUBSET BulkVals]
      BY BulkTyped DEF BulkTypeOK
<1>2. CASE silent
      BY <1>2 DEF Reload, BulkInv, BulkTypeOK, TickIsOfThePlan, Removals
<1>3. CASE ~silent
  <2>1. modal' \in ModalType /\ modal'.tick = FALSE
        BY <1>1, <1>3, MountType DEF Reload
  <2>2. preview' \in [from : {"none", "bar", "modal"}, flow : Flows, values : SUBSET BulkVals]
        BY <1>1, <1>3, NotOpenedType DEF Reload
  <2>3. filter' \subseteq BulkVals
        BY <1>3 DEF Reload
  <2> QED BY <2>1, <2>2, <2>3
          DEF Reload, BulkInv, BulkTypeOK, TickIsOfThePlan, ModalType
<1> QED BY <1>2, <1>3

LEMMA TableInv ==
    ASSUME BulkInv,
           \/ \E f \in {BulkVals} \cup {{v} : v \in BulkVals} : SetFilter(f)
           \/ \E v \in BulkVals : Toggle(v) \/ OthersEdit(v)
           \/ \E on \in BOOLEAN : ToggleAll(on)
           \/ ClearSelection
    PROVE  BulkInv'
BY BulkAssumption
   DEF BulkInv, BulkTypeOK, TickIsOfThePlan, Removals, SetFilter, Toggle, OthersEdit, ToggleAll,
       ClearSelection, Visible

LEMMA OpenTextInv ==
    ASSUME BulkInv, NEW filled \in BOOLEAN, OpenText(filled)
    PROVE  BulkInv'
<1> DEFINE o == [NotOpened EXCEPT !.step = "text", !.sync = filled,
                                  !.values = IF filled THEN records ELSE {}]
<1>1. records \subseteq BulkVals
      BY DEF BulkInv, BulkTypeOK
<1>2. o \in OpenedType
      BY <1>1, NotOpenedType DEF OpenedType
<1>3. Open(o) /\ UNCHANGED <<rrset, foreign, records, filter, selected, preview, seen>>
      BY DEF OpenText
<1> HIDE DEF o
<1> QED BY <1>2, <1>3, OpenInv DEF BulkInv, BulkTypeOK

LEMMA AskFromBarInv ==
    ASSUME BulkInv, NEW flow \in Flows, AskFromBar(flow)
    PROVE  BulkInv'
BY DEF BulkInv, BulkTypeOK, TickIsOfThePlan, Removals, AskFromBar

LEMMA BarPreviewArrivesInv == BulkInv /\ BarPreviewArrives => BulkInv'
<1> SUFFICES ASSUME BulkInv, BarPreviewArrives PROVE BulkInv'
    OBVIOUS
<1> DEFINE o == [step |-> "preview", flow |-> preview.flow, values |-> preview.values,
                 sync |-> FALSE, plan |-> Planned(preview.flow, FALSE, preview.values)]
<1>1. preview.flow \in Flows /\ preview.values \in SUBSET BulkVals
      BY BulkTyped
<1>2. Planned(preview.flow, FALSE, preview.values) \in Plans
      BY <1>1, PlannedType DEF BulkInv
<1>3. o \in OpenedType
      BY <1>1, <1>2 DEF OpenedType
<1>4. /\ Open(o) /\ UNCHANGED <<rrset, foreign, records, filter, selected, seen>>
      /\ preview' = NoPreview
      BY DEF BarPreviewArrives
<1> HIDE DEF o
<1> QED BY <1>3, <1>4, OpenInv, NotOpenedType DEF BulkInv, BulkTypeOK

LEMMA CloseEditorInv == BulkInv /\ CloseEditor => BulkInv'
BY OpenInv, NotOpenedType DEF CloseEditor, BulkInv, BulkTypeOK

(* The editor itself: a step that leaves its plan, or one without a tick.  *)

LEMMA ModalKept ==
    ASSUME BulkInv, modal' \in ModalType,
           \/ modal'.tick = modal.tick /\ modal'.plan = modal.plan
           \/ modal'.tick = FALSE
           \/ modal'.plan = NoPlan,
           preview' \in [from : {"none", "bar", "modal"}, flow : Flows, values : SUBSET BulkVals],
           UNCHANGED <<rrset, foreign, records, filter, selected, opened, seen>>
    PROVE  BulkInv'
<1>1. modal'.tick = modal.tick /\ modal'.plan = modal.plan => TickIsOfThePlan'
      BY DEF BulkInv, TickIsOfThePlan, Removals
<1>2. modal'.tick = FALSE => TickIsOfThePlan'
      BY DEF TickIsOfThePlan
<1>3. modal'.plan = NoPlan => TickIsOfThePlan'
      BY DEF TickIsOfThePlan, Removals, NoPlan
<1> QED BY <1>1, <1>2, <1>3 DEF BulkInv, BulkTypeOK, ModalType

LEMMA EditorInv ==
    ASSUME BulkInv,
           \/ \E t \in SUBSET BulkVals : EditText(t)
           \/ LoadAll \/ AskPreview \/ PreviewFails \/ Back \/ ApplyRefused \/ Conflict
    PROVE  BulkInv'
<1>1. /\ modal \in ModalType /\ records \subseteq BulkVals /\ opened \in OpenedType
      /\ preview \in [from : {"none", "bar", "modal"}, flow : Flows, values : SUBSET BulkVals]
      /\ NoPreview \in [from : {"none", "bar", "modal"}, flow : Flows, values : SUBSET BulkVals]
      BY BulkTyped, NotOpenedType DEF BulkTypeOK
<1>2. ASSUME NEW t \in SUBSET BulkVals, EditText(t) PROVE BulkInv'
  <2>1. modal' \in ModalType /\ modal'.tick = modal.tick /\ modal'.plan = modal.plan
        BY <1>1, <1>2 DEF EditText, ModalType
  <2> QED BY <1>1, <1>2, <2>1, ModalKept DEF EditText
<1>3. CASE LoadAll
  <2>1. modal' \in ModalType /\ modal'.tick = modal.tick /\ modal'.plan = modal.plan
        BY <1>1, <1>3 DEF LoadAll, ModalType
  <2> QED BY <1>1, <1>3, <2>1, ModalKept DEF LoadAll
<1>4. CASE AskPreview
  <2>1. modal' \in ModalType /\ modal'.tick = modal.tick /\ modal'.plan = modal.plan
        BY <1>1, <1>4 DEF AskPreview, ModalType
  <2>2. preview' \in [from : {"none", "bar", "modal"}, flow : Flows, values : SUBSET BulkVals]
        BY <1>1, <1>4 DEF AskPreview, ModalType, OpenedType
  <2> QED BY <1>4, <2>1, <2>2, ModalKept DEF AskPreview
<1>5. CASE PreviewFails
  <2>1. modal' \in ModalType /\ modal'.tick = modal.tick /\ modal'.plan = modal.plan
        BY <1>1, <1>5 DEF PreviewFails, ModalType
  <2> QED BY <1>1, <1>5, <2>1, ModalKept DEF PreviewFails
<1>6. CASE Back
  <2>1. modal' \in ModalType /\ modal'.tick = modal.tick /\ modal'.plan = modal.plan
        BY <1>1, <1>6 DEF Back, ModalType
  <2> QED BY <1>1, <1>6, <2>1, ModalKept DEF Back
<1>7. CASE ApplyRefused
  <2>1. modal' \in ModalType /\ modal'.tick = modal.tick /\ modal'.plan = modal.plan
        BY <1>1, <1>7 DEF ApplyRefused, ModalType
  <2> QED BY <1>1, <1>7, <2>1, ModalKept DEF ApplyRefused
<1>8. CASE Conflict
  <2>1. modal' \in ModalType /\ modal'.tick = modal.tick /\ modal'.plan = modal.plan
        BY <1>1, <1>8 DEF Conflict, ModalType
  <2> QED BY <1>1, <1>8, <2>1, ModalKept DEF Conflict
<1> QED BY <1>2, <1>3, <1>4, <1>5, <1>6, <1>7, <1>8

LEMMA PreviewArrivesInv == BulkInv /\ PreviewArrives => BulkInv'
<1> SUFFICES ASSUME BulkInv, PreviewArrives PROVE BulkInv'
    OBVIOUS
<1>1. /\ modal \in ModalType /\ opened.flow \in Flows /\ modal.sync \in BOOLEAN
      /\ preview.values \in SUBSET BulkVals
      BY BulkTyped DEF OpenedType, ModalType
<1>2. Planned(opened.flow, modal.sync, preview.values) \in Plans
      BY <1>1, PlannedType DEF BulkInv
<1>3. modal' \in ModalType /\ modal'.tick = FALSE
      BY <1>1, <1>2 DEF PreviewArrives, ModalType, TickAfter
<1> QED BY <1>3, ModalKept, NotOpenedType DEF PreviewArrives

LEMMA LinesRefusedInv == BulkInv /\ LinesRefused => BulkInv'
<1> SUFFICES ASSUME BulkInv, LinesRefused PROVE BulkInv'
    OBVIOUS
<1>1. modal \in ModalType
      BY BulkTyped
<1>2. modal' \in ModalType /\ modal'.plan = NoPlan
      BY <1>1, NotOpenedType DEF LinesRefused, ModalType
<1> QED BY <1>2, ModalKept, NotOpenedType DEF LinesRefused

LEMMA TickInv == BulkInv /\ Tick => BulkInv'
<1> SUFFICES ASSUME BulkInv, Tick PROVE BulkInv'
    OBVIOUS
<1>1. modal \in ModalType /\ modal.plan \in Plans
      BY BulkTyped DEF ModalType
<1>2. modal' \in ModalType /\ modal'.tick = ~modal.tick /\ modal'.plan = modal.plan
      BY <1>1 DEF Tick, ModalType
<1>3. Removals \subseteq BulkVals /\ Removals' = Removals
      BY <1>1, <1>2 DEF Removals, Plans
<1>4. seen' = IF modal.tick THEN {} ELSE Removals
      BY DEF Tick
<1>5. TickIsOfThePlan'
      BY <1>2, <1>3, <1>4 DEF TickIsOfThePlan
<1> QED BY <1>2, <1>3, <1>4, <1>5 DEF BulkInv, BulkTypeOK, ModalType, Tick

LEMMA ApplyInv ==
    ASSUME BulkInv, NEW lost \in BOOLEAN, Apply(lost)
    PROVE  BulkInv'
<1>1. modal.plan.result \subseteq BulkVals
      BY BulkTyped DEF ModalType, Plans
<1>2. CASE lost
      BY <1>1, <1>2 DEF Apply, BulkInv, BulkTypeOK, TickIsOfThePlan, Removals
<1>3. CASE ~lost
      BY <1>1, <1>3, OpenInv, NotOpenedType DEF Apply, BulkInv, BulkTypeOK
<1> QED BY <1>2, <1>3

LEMMA BulkInitInv == BulkInit => BulkInv
<1> SUFFICES ASSUME BulkInit PROVE BulkInv
    OBVIOUS
<1>1. opened \in OpenedType /\ modal \in ModalType /\ modal.tick = FALSE
      BY NotOpenedType, MountType DEF BulkInit
<1> QED BY <1>1, NotOpenedType, BulkAssumption
        DEF BulkInit, BulkInv, BulkTypeOK, TickIsOfThePlan, OpenedType, ModalType

LEMMA BulkStep == BulkInv /\ [BulkNext]_bulkVars => BulkInv'
<1> SUFFICES ASSUME BulkInv, [BulkNext]_bulkVars PROVE BulkInv'
    OBVIOUS
<1>1. CASE UNCHANGED bulkVars
      BY <1>1 DEF BulkInv, BulkTypeOK, TickIsOfThePlan, Removals, bulkVars
<1>2. CASE AskTtl \/ \E flow \in {"delete", "flag"} : AskFromBar(flow)
      BY <1>2, AskFromBarInv DEF AskTtl, Flows
<1> QED BY <1>1, <1>2, ReloadInv, TableInv, OpenTextInv, BarPreviewArrivesInv, CloseEditorInv,
           EditorInv, PreviewArrivesInv, LinesRefusedInv, TickInv, ApplyInv
        DEF BulkNext

LEMMA BulkRemovesSeen == BulkInv => RemovesOnlySeen
<1> SUFFICES ASSUME BulkInv, NEW b \in BOOLEAN, Apply(b)
             PROVE  (rrset \ rrset') \subseteq seen
    BY DEF RemovesOnlySeen
<1>1. rrset \ rrset' = Removals
      BY DEF Apply, Expected, Removals
<1> QED BY <1>1 DEF Apply, CanApply, BulkInv, TickIsOfThePlan

-----------------------------------------------------------------------------
(* TokenForms: what differs from the entry a form was opened with was       *)
(* touched, a request holds nothing else, and the token is sound.           *)

EditType == {NoEdit} \cup [open : {TRUE}, base : [values : Values(kind), revoked : BOOLEAN],
                           values : Values(kind), zones : BOOLEAN,
                           touched : SUBSET FieldsOf(kind)]
Bodies == UNION {[fields -> BOOLEAN] : fields \in SUBSET FieldsOf(kind)}
TokenChangeType == [at : {"none", "form", "row", "saved", "refused"}, body : Bodies,
                    touched : SUBSET FieldsOf(kind)]

TouchedOnly ==
    /\ edit.open => \A f \in FieldsOf(kind) :
                       edit.values[f] # edit.base.values[f] => f \in edit.touched
    /\ DOMAIN change.body \subseteq change.touched

TokenInv ==
    /\ kind \in {"panel", "dyndns"} /\ revoked \in BOOLEAN
    /\ user \in [admin : BOOLEAN, zones : BOOLEAN]
    /\ token \in Values(kind) /\ tokenOthers \in 0..TokenOthers
    /\ entry \in [values : Values(kind), revoked : BOOLEAN]
    /\ edit \in EditType /\ change \in TokenChangeType
    /\ kind = "panel" => ~revoked
    /\ TouchedOnly /\ TokenIsSound

LEMMA ClosedEdit == NoEdit \in EditType /\ NoEdit.open = FALSE /\ NoEdit.touched = {}
BY DEF EditType, NoEdit

LEMMA TokenInvType == TokenInv => TokenFormsTypeOK
<1> SUFFICES ASSUME TokenInv PROVE TokenFormsTypeOK
    OBVIOUS
<1>1. /\ edit.open => edit.base.values \in Values(kind) /\ edit.values \in Values(kind)
      /\ edit.touched \subseteq FieldsOf(kind)
  <2>1. CASE edit = NoEdit
        BY <2>1, ClosedEdit
  <2>2. CASE edit # NoEdit
        BY <2>2 DEF TokenInv, EditType
  <2> QED BY <2>1, <2>2
<1>2. /\ change.touched \subseteq FieldsOf(kind)
      /\ change.at \in {"none", "form", "row", "saved", "refused"}
      /\ DOMAIN change.body \subseteq FieldsOf(kind)
      BY DEF TokenInv, TokenChangeType, Bodies
<1> QED BY <1>1, <1>2 DEF TokenInv, TokenFormsTypeOK

LEMMA TokenFields ==
    ASSUME kind \in {"panel", "dyndns"}
    PROVE  /\ "active" \in FieldsOf(kind)
           /\ kind = "panel" => {"scope", "admin"} \subseteq FieldsOf(kind)
BY DEF FieldsOf

LEMMA NoChangeType == NoChange \in TokenChangeType
<1>1. <<>> \in [{} -> BOOLEAN]
      OBVIOUS
<1>2. <<>> \in Bodies
      BY <1>1 DEF Bodies
<1> QED BY <1>2 DEF NoChange, TokenChangeType

LEMMA OpenEditType ==
    ASSUME TokenInv, edit.open
    PROVE  /\ edit \in [open : {TRUE}, base : [values : Values(kind), revoked : BOOLEAN],
                        values : Values(kind), zones : BOOLEAN, touched : SUBSET FieldsOf(kind)]
           /\ \A f \in FieldsOf(kind) : edit.values[f] \in BOOLEAN
<1>1. edit # NoEdit
      BY ClosedEdit
<1>2. edit \in [open : {TRUE}, base : [values : Values(kind), revoked : BOOLEAN],
                values : Values(kind), zones : BOOLEAN, touched : SUBSET FieldsOf(kind)]
      BY <1>1 DEF TokenInv, EditType
<1> QED BY <1>2 DEF Values

(* What the server makes of a request it accepts is sound, and differs      *)
(* from the token in the fields of the request only.                        *)

LEMMA Merged ==
    ASSUME TokenInv, NEW body \in Bodies, Accepts(body)
    PROVE  /\ MergedToken(body) \in Values(kind)
           /\ Sound(MergedToken(body), revoked)
           /\ \A f \in FieldsOf(kind) : MergedToken(body)[f] # token[f] => f \in DOMAIN body
<1>1. PICK fields \in SUBSET FieldsOf(kind) : body \in [fields -> BOOLEAN]
      BY DEF Bodies
<1>2. \A f \in FieldsOf(kind) : token[f] \in BOOLEAN
      BY DEF TokenInv, Values
<1>3. /\ MergedToken(body) \in Values(kind)
      /\ \A f \in FieldsOf(kind) : MergedToken(body)[f] = IF f \in DOMAIN body THEN body[f]
                                                          ELSE token[f]
      BY <1>1, <1>2 DEF MergedToken, Values
<1>4. CASE kind = "panel"
  <2>1. ~(MergedToken(body)["admin"] /\ MergedToken(body)["scope"]) /\ ~revoked
        BY <1>4 DEF Accepts, PanelAccepts, TokenInv
  <2> QED BY <1>3, <2>1 DEF Sound
<1>5. CASE kind = "dyndns"
  <2>1. revoked => ~token["active"] /\ ~Sets(body, "active")
        BY <1>5 DEF TokenInv, TokenIsSound, Sound, Accepts, DyndnsAccepts
  <2>2. revoked => ~MergedToken(body)["active"]
        BY <1>1, <1>3, <2>1, TokenFields DEF Sets, TokenInv
  <2> QED BY <1>3, <1>5, <2>2 DEF Sound
<1> QED BY <1>4, <1>5 DEF TokenInv

LEMMA OpenEditInv == TokenInv /\ OpenEdit => TokenInv'
<1> SUFFICES ASSUME TokenInv, OpenEdit PROVE TokenInv'
    OBVIOUS
<1> DEFINE e == [open |-> TRUE, base |-> entry, values |-> entry.values, touched |-> {},
                 zones |-> kind = "panel" /\ entry.values["scope"]]
<1>1. entry.values["scope"] \in BOOLEAN \/ kind # "panel"
      BY TokenFields DEF TokenInv, Values
<1>2. edit' = e /\ UNCHANGED <<kind, user, token, revoked, entry, change, tokenOthers>>
      BY DEF OpenEdit
<1>3. e \in EditType
      BY <1>1 DEF TokenInv, EditType
<1>4. \A f \in FieldsOf(kind) : e.values[f] = e.base.values[f]
      OBVIOUS
<1> HIDE DEF e
<1> QED BY <1>2, <1>3, <1>4
        DEF TokenInv, TouchedOnly, TokenIsSound, EditType, TokenChangeType, Bodies, Sound

(* The form with other values; nothing else changes.                        *)

LEMMA EditKept ==
    ASSUME TokenInv, edit' \in EditType,
           edit'.open => \A f \in FieldsOf(kind) :
               edit'.values[f] # edit'.base.values[f] => f \in edit'.touched,
           UNCHANGED <<kind, user, token, revoked, entry, change, tokenOthers>>
    PROVE  TokenInv'
BY DEF TokenInv, TouchedOnly, TokenIsSound, EditType, TokenChangeType, Bodies, Sound

LEMMA SetFieldInv ==
    ASSUME TokenInv, NEW f \in FieldsOf(kind), NEW v \in BOOLEAN, SetField(f, v)
    PROVE  TokenInv'
<1>1. /\ edit.open
      /\ edit' = [edit EXCEPT !.values = [edit.values EXCEPT ![f] = v],
                              !.touched = edit.touched \cup {f}]
      BY OpenEditType DEF SetField
<1>2. [edit.values EXCEPT ![f] = v] \in Values(kind)
      BY <1>1, OpenEditType DEF Values
<1>3. /\ edit' \in EditType /\ edit'.values = [edit.values EXCEPT ![f] = v]
      /\ edit'.base = edit.base /\ edit'.touched = edit.touched \cup {f}
      BY <1>1, <1>2, OpenEditType DEF EditType
<1>4. \A g \in FieldsOf(kind) :
         edit'.values[g] # edit'.base.values[g] => g \in edit'.touched
  <2> SUFFICES ASSUME NEW g \in FieldsOf(kind), edit'.values[g] # edit.base.values[g], g # f
               PROVE  g \in edit.touched
      BY <1>3
  <2>1. edit'.values[g] = edit.values[g]
        BY <1>1, <1>3, OpenEditType DEF Values
  <2> QED BY <1>1, <2>1 DEF TokenInv, TouchedOnly
<1> QED BY <1>3, <1>4, EditKept DEF SetField

LEMMA SetScopeModeInv ==
    ASSUME TokenInv, NEW v \in BOOLEAN, SetScopeMode(v)
    PROVE  TokenInv'
<1> DEFINE values == [edit.values EXCEPT !["scope"] = v, !["admin"] = @ /\ ~v]
           touched == edit.touched \cup {"scope"} \cup (IF v THEN {"admin"} ELSE {})
<1>1. edit.open /\ kind = "panel" /\ {"scope", "admin"} \subseteq FieldsOf(kind)
      BY TokenFields DEF SetScopeMode
<1>2. edit' = [edit EXCEPT !.values = values, !.touched = touched]
      BY DEF SetScopeMode
<1>3. /\ values \in Values(kind)
      /\ \A f \in FieldsOf(kind) : values[f] = IF f = "scope" THEN v
                                               ELSE IF f = "admin" THEN edit.values[f] /\ ~v
                                               ELSE edit.values[f]
      BY <1>1, OpenEditType DEF Values
<1>4. touched \subseteq FieldsOf(kind)
      BY <1>1, OpenEditType
<1> HIDE DEF values
<1>5. /\ edit' \in EditType /\ edit'.values = values /\ edit'.base = edit.base
      /\ edit'.touched = touched
      BY <1>1, <1>2, <1>3, <1>4, OpenEditType DEF EditType
<1>6. \A f \in FieldsOf(kind) : values[f] # edit.base.values[f] => f \in touched
  <2> SUFFICES ASSUME NEW f \in FieldsOf(kind), values[f] # edit.base.values[f],
                      f # "scope", ~(v /\ f = "admin")
               PROVE  f \in edit.touched
      OBVIOUS
  <2>1. values[f] = edit.values[f]
        BY <1>1, <1>3, OpenEditType
  <2> QED BY <1>1, <2>1 DEF TokenInv, TouchedOnly
<1> QED BY <1>5, <1>6, EditKept DEF SetScopeMode

LEMMA ChooseZonesInv ==
    ASSUME TokenInv, NEW some \in BOOLEAN, ChooseZones(some)
    PROVE  TokenInv'
<1>1. edit.open /\ "scope" \in FieldsOf(kind)
      BY TokenFields DEF ChooseZones
<1>2. /\ edit' \in EditType /\ edit'.values = edit.values /\ edit'.base = edit.base
      /\ edit'.touched = edit.touched \cup {"scope"}
      BY <1>1, OpenEditType DEF ChooseZones, EditType
<1> QED BY <1>1, <1>2, EditKept DEF ChooseZones, TokenInv, TouchedOnly

LEMMA CloseEditInv == TokenInv /\ CloseEdit => TokenInv'
BY ClosedEdit, EditKept DEF CloseEdit

(* A new request; the form is left as it is.                                *)

LEMMA ChangeSent ==
    ASSUME TokenInv, change' \in TokenChangeType, DOMAIN change'.body \subseteq change'.touched,
           UNCHANGED <<kind, user, token, revoked, entry, edit, tokenOthers>>
    PROVE  TokenInv'
BY DEF TokenInv, TouchedOnly, TokenIsSound, EditType, TokenChangeType, Bodies, Sound

LEMMA SubmitEditInv == TokenInv /\ SubmitEdit => TokenInv'
<1> SUFFICES ASSUME TokenInv, SubmitEdit PROVE TokenInv'
    OBVIOUS
<1> DEFINE differ == {f \in DOMAIN edit.values : edit.values[f] # edit.base.values[f]}
           body == BuildUpdatePayload(edit.base.values, edit.values)
<1>1. /\ edit.open /\ edit.values \in Values(kind) /\ edit.touched \subseteq FieldsOf(kind)
      BY OpenEditType DEF SubmitEdit
<1>2. /\ differ \subseteq FieldsOf(kind) /\ differ \subseteq edit.touched
      BY <1>1 DEF Values, TokenInv, TouchedOnly
<1>3. body \in [differ -> BOOLEAN]
      BY <1>1 DEF Values, BuildUpdatePayload
<1>4. body \in Bodies /\ DOMAIN body = differ
      BY <1>2, <1>3 DEF Bodies
<1>5. CASE DOMAIN body = {}
  <2>1. edit' = NoEdit /\ UNCHANGED <<kind, user, token, revoked, entry, change, tokenOthers>>
        BY <1>5 DEF SubmitEdit
  <2> QED BY <2>1, ClosedEdit, EditKept
<1>6. CASE DOMAIN body # {}
  <2>1. /\ change' = [at |-> "form", body |-> body, touched |-> edit.touched]
        /\ UNCHANGED <<kind, user, token, revoked, entry, edit, tokenOthers>>
        BY <1>6 DEF SubmitEdit
  <2> HIDE DEF body
  <2>2. change' \in TokenChangeType /\ change'.body = body /\ change'.touched = edit.touched
        BY <1>1, <1>4, <2>1 DEF TokenChangeType
  <2> QED BY <1>2, <1>4, <2>1, <2>2, ChangeSent
<1> QED BY <1>5, <1>6

LEMMA ToggleActiveInv == TokenInv /\ ToggleActive => TokenInv'
<1> SUFFICES ASSUME TokenInv, ToggleActive PROVE TokenInv'
    OBVIOUS
<1> DEFINE body == [f \in {"active"} |-> ~entry.values["active"]]
<1>1. {"active"} \subseteq FieldsOf(kind) /\ body \in [{"active"} -> BOOLEAN]
      BY TokenFields DEF TokenInv
<1>2. body \in Bodies /\ DOMAIN body = {"active"}
      BY <1>1 DEF Bodies
<1>3. /\ change' = [at |-> "row", touched |-> {"active"}, body |-> body]
      /\ UNCHANGED <<kind, user, token, revoked, entry, edit, tokenOthers>>
      BY DEF ToggleActive
<1> HIDE DEF body
<1>4. change' \in TokenChangeType /\ change'.body = body /\ change'.touched = {"active"}
      BY <1>1, <1>2, <1>3 DEF TokenChangeType
<1> QED BY <1>2, <1>3, <1>4, ChangeSent

(* A new token on the server.                                               *)

LEMMA TokenChanged ==
    ASSUME TokenInv, token' \in Values(kind), Sound(token', revoked'), revoked' \in BOOLEAN,
           kind = "panel" => ~revoked', tokenOthers' \in 0..TokenOthers,
           change' \in TokenChangeType, DOMAIN change'.body \subseteq change'.touched,
           UNCHANGED <<kind, user, entry, edit>>
    PROVE  TokenInv'
BY DEF TokenInv, TouchedOnly, TokenIsSound, EditType, TokenChangeType, Bodies, Sound

LEMMA ServeEditInv ==
    TokenInv /\ ServeEdit =>
        /\ TokenInv'
        /\ \A f \in FieldsOf(kind) : token'[f] # token[f] => f \in change.touched
<1> SUFFICES ASSUME TokenInv, ServeEdit
             PROVE  /\ TokenInv'
                    /\ \A f \in FieldsOf(kind) : token'[f] # token[f] => f \in change.touched
    OBVIOUS
<1>1. change \in TokenChangeType /\ change.body \in Bodies
      BY DEF TokenInv, TokenChangeType
<1>2. /\ change' \in TokenChangeType /\ change'.body = change.body
      /\ change'.touched = change.touched
      BY <1>1 DEF ServeEdit, TokenChangeType
<1>3. /\ token' \in Values(kind) /\ Sound(token', revoked)
      /\ \A f \in FieldsOf(kind) : token'[f] # token[f] => f \in DOMAIN change.body
      BY <1>1, Merged DEF ServeEdit, TokenInv, TokenIsSound
<1> QED BY <1>2, <1>3, TokenChanged DEF ServeEdit, TokenInv, TouchedOnly

LEMMA EditAnsweredInv ==
    ASSUME TokenInv, NEW lost \in BOOLEAN, EditAnswered(lost)
    PROVE  TokenInv'
<1>1. edit' = NoEdit \/ edit' = edit
      BY DEF EditAnswered
<1>2. entry' = ListedAs(token, revoked) \/ entry' = entry
      BY DEF EditAnswered
<1>3. edit' \in EditType /\ (edit'.open => edit' = edit)
      BY <1>1, ClosedEdit DEF TokenInv
<1>4. entry' \in [values : Values(kind), revoked : BOOLEAN]
      BY <1>2 DEF TokenInv, ListedAs
<1>5. change' \in TokenChangeType /\ DOMAIN change'.body \subseteq change'.touched
      BY NoChangeType DEF EditAnswered, NoChange
<1> QED BY <1>3, <1>4, <1>5
        DEF EditAnswered, TokenInv, TouchedOnly, TokenIsSound, EditType, TokenChangeType, Bodies, Sound

LEMMA OtherChangesInv ==
    ASSUME TokenInv, NEW f \in FieldsOf(kind), OtherChanges(f)
    PROVE  TokenInv'
<1> DEFINE body == [g \in {f} |-> ~token[f]]
<1>1. body \in Bodies /\ Accepts(body) /\ token' = MergedToken(body)
      BY DEF OtherChanges, Bodies
<1> HIDE DEF body
<1>2. token' \in Values(kind) /\ Sound(token', revoked)
      BY <1>1, Merged
<1>3. tokenOthers' \in 0..TokenOthers
      BY TokenFormsAssumption DEF OtherChanges, TokenInv
<1> QED BY <1>2, <1>3, TokenChanged DEF OtherChanges, TokenInv, TouchedOnly

LEMMA SecretInv ==
    TokenInv /\ (RevokeSecret \/ RotateSecret) => TokenInv'
<1> SUFFICES ASSUME TokenInv, RevokeSecret \/ RotateSecret PROVE TokenInv'
    OBVIOUS
<1>1. tokenOthers' \in 0..TokenOthers
      BY TokenFormsAssumption DEF RevokeSecret, RotateSecret, TokenInv
<1>2. CASE RevokeSecret
  <2>1. token' \in Values(kind) /\ ~token'["active"] /\ kind = "dyndns"
        BY <1>2, TokenFields DEF RevokeSecret, TokenInv, Values
  <2> QED BY <1>1, <1>2, <2>1, TokenChanged
          DEF RevokeSecret, TokenInv, TouchedOnly, Sound
<1>3. CASE RotateSecret
      BY <1>1, <1>3, TokenChanged
      DEF RotateSecret, TokenInv, TouchedOnly, TokenIsSound, Sound
<1> QED BY <1>2, <1>3

LEMMA TokenFormsInitInv == TokenFormsInit => TokenInv
<1> SUFFICES ASSUME TokenFormsInit PROVE TokenInv
    OBVIOUS
<1>1. token \in Values(kind) /\ Sound(token, FALSE)
      BY DEF TokenFormsInit
<1>2. DOMAIN NoChange.body \subseteq NoChange.touched
      BY DEF NoChange
<1>3. tokenOthers \in 0..TokenOthers
      BY TokenFormsAssumption DEF TokenFormsInit
<1> QED BY <1>1, <1>2, <1>3, NoChangeType, ClosedEdit
        DEF TokenFormsInit, TokenInv, TouchedOnly, TokenIsSound, ListedAs

LEMMA TokenFormsStep == TokenInv /\ [TokenFormsNext]_formVars => TokenInv'
<1> SUFFICES ASSUME TokenInv, [TokenFormsNext]_formVars PROVE TokenInv'
    OBVIOUS
<1>1. CASE UNCHANGED formVars
      BY <1>1 DEF TokenInv, TouchedOnly, TokenIsSound, EditType, TokenChangeType, Bodies, Sound, formVars
<1> QED BY <1>1, OpenEditInv, CloseEditInv, SubmitEditInv, ToggleActiveInv, ServeEditInv, SecretInv,
           EditAnsweredInv, SetScopeModeInv, ChooseZonesInv, OtherChangesInv, SetFieldInv
        DEF TokenFormsNext

LEMMA OnlyTouched == TokenInv /\ [TokenFormsNext]_formVars => OnlyTouchedFieldsChange
<1> SUFFICES ASSUME TokenInv, [TokenFormsNext]_formVars, change.at \in {"form", "row"},
                    change'.at # change.at
             PROVE  \A f \in FieldsOf(kind) : token'[f] # token[f] => f \in change.touched
    BY DEF OnlyTouchedFieldsChange
<1>1. ServeEdit
      BY DEF TokenFormsNext, formVars, OpenEdit, CloseEdit, SubmitEdit, ToggleActive, RevokeSecret,
         RotateSecret, EditAnswered, SetScopeMode, ChooseZones, OtherChanges, SetField
<1> QED BY <1>1, ServeEditInv

-----------------------------------------------------------------------------
(* AuditRetention: the question belongs to the save, and what is saved      *)
(* stands in the field until something else is typed.                       *)

RetentionInv ==
    /\ RetentionTypeOK /\ SavedIsWhatIsShown
    /\ saving # Nothing => /\ sheet.open /\ sheet.settings # Nothing
                           /\ agreed.to = saving /\ ~sheet.saved
    /\ agreed.asked = Shortens(agreed.from, agreed.to)

LEMMA RetentionConfirmed == RetentionInv => RemovalWasConfirmed
<1> SUFFICES ASSUME RetentionInv, NEW age \in Days,
                    agreed.from = 0 \/ age + 1 <= agreed.from,
                    ~(agreed.to = 0 \/ age + 1 <= agreed.to)
             PROVE  agreed.asked
    BY DEF RemovalWasConfirmed
<1>1. age \in Nat /\ agreed.from \in Nat /\ agreed.to \in Nat
      BY RetentionAssumption DEF RetentionInv, RetentionTypeOK
<1>2. Shortens(agreed.from, agreed.to)
      BY <1>1 DEF Shortens
<1> QED BY <1>2 DEF RetentionInv

LEMMA RetentionInitInv == RetentionInit => RetentionInv
<1> SUFFICES ASSUME RetentionInit PROVE RetentionInv
    OBVIOUS
<1>1. /\ agreed \in [from : Days, to : Days, asked : BOOLEAN]
      /\ agreed.asked = FALSE /\ agreed.from = 0 /\ agreed.to = 0
      BY RetentionAssumption DEF RetentionInit
<1>2. Shortens(0, 0) = FALSE
      BY DEF Shortens
<1>3. /\ sheet \in [open : BOOLEAN, settings : Days \cup {Nothing},
                    value : Days \cup {Invalid}, saved : BOOLEAN]
      /\ ~sheet.saved
      BY RetentionAssumption DEF RetentionInit, ClosedSheet
<1>4. agreed.asked = Shortens(agreed.from, agreed.to)
      BY <1>1, <1>2
<1>5. setByOther \in 0..RetentionOthers /\ days \in Days /\ saving = Nothing
      BY RetentionAssumption DEF RetentionInit
<1> QED BY <1>1, <1>3, <1>4, <1>5 DEF RetentionInv, RetentionTypeOK, SavedIsWhatIsShown

LEMMA SaveDaysInv == RetentionInv /\ SaveDays => RetentionInv'
<1> SUFFICES ASSUME RetentionInv, SaveDays PROVE RetentionInv'
    OBVIOUS
<1>1. /\ sheet.value \in Days /\ sheet.settings \in Days /\ Nothing \notin Days
      /\ sheet.settings # Nothing
      BY RetentionAssumption DEF RetentionInv, RetentionTypeOK, SaveDays, CanSave, Nothing
<1>2. Shortens(sheet.settings, sheet.value) \in BOOLEAN
      BY DEF Shortens
<1>3. /\ agreed' \in [from : Days, to : Days, asked : BOOLEAN]
      /\ agreed'.asked = Shortens(agreed'.from, agreed'.to)
      /\ agreed'.to = sheet.value
      BY <1>1, <1>2 DEF SaveDays
<1>4. /\ sheet' \in [open : BOOLEAN, settings : Days \cup {Nothing},
                     value : Days \cup {Invalid}, saved : BOOLEAN]
      /\ ~sheet'.saved /\ sheet'.open = sheet.open /\ sheet'.settings = sheet.settings
      BY DEF RetentionInv, RetentionTypeOK, SaveDays
<1> QED BY <1>1, <1>3, <1>4 DEF RetentionInv, RetentionTypeOK, SavedIsWhatIsShown, SaveDays

LEMMA RetentionStep == RetentionInv /\ [RetentionNext]_retentionVars => RetentionInv'
<1> SUFFICES ASSUME RetentionInv, [RetentionNext]_retentionVars PROVE RetentionInv'
    OBVIOUS
<1> USE RetentionAssumption DEF RetentionInv, RetentionTypeOK, SavedIsWhatIsShown, Nothing, Invalid
<1>1. CASE OpenSheet
      BY <1>1 DEF OpenSheet, ClosedSheet
<1>2. CASE SettingsArrive
  <2>1. ~sheet.saved /\ saving = Nothing
    <3>1. sheet.settings = -2 /\ sheet.value \in Nat \cup {-1}
          BY <1>2 DEF SettingsArrive
    <3>2. sheet.value # sheet.settings
          BY <3>1
    <3> QED BY <3>1, <3>2
  <2>2. /\ sheet' \in [open : BOOLEAN, settings : Days \cup {Nothing},
                       value : Days \cup {Invalid}, saved : BOOLEAN]
        /\ ~sheet'.saved
        BY <1>2, <2>1 DEF SettingsArrive
  <2> QED BY <1>2, <2>1, <2>2 DEF SettingsArrive
<1>3. CASE CloseSheet
      BY <1>3 DEF CloseSheet, ClosedSheet
<1>4. ASSUME NEW v \in Days \cup {Invalid}, TypeDays(v) PROVE RetentionInv'
      BY <1>4 DEF TypeDays, Typed
<1>5. CASE DaysSaved
      BY <1>5 DEF DaysSaved
<1>6. CASE DaysRefused
      BY <1>6 DEF DaysRefused
<1>7. ASSUME NEW d \in Days, OtherSetsDays(d) PROVE RetentionInv'
      BY <1>7 DEF OtherSetsDays
<1>8. CASE UNCHANGED retentionVars
      BY <1>8 DEF retentionVars
<1> QED BY <1>1, <1>2, <1>3, <1>4, <1>5, <1>6, <1>7, <1>8, SaveDaysInv DEF RetentionNext

-----------------------------------------------------------------------------
(* HistoryFocus: whatever is pinned, fetched or kept by the dialog is the   *)
(* entry of the address; the dialog that is closed keeps none.              *)

FocusInv ==
    /\ FocusTypeOK /\ FocusFollowsAddress
    /\ fetch \in {NoEntry, address} /\ pinned \in {NoEntry, address}
    /\ undo.pinned \in {NoEntry, address}
    /\ undo.entry = NoEntry => undo.pinned = NoEntry /\ ~undo.sent

LEMMA FocusInitInv == FocusInit => FocusInv
<1> SUFFICES ASSUME FocusInit PROVE FocusInv
    OBVIOUS
<1>1. /\ undo \in [entry : EntryOrNone, sent : BOOLEAN, pinned : EntryOrNone]
      /\ undo.pinned = NoEntry /\ ~undo.sent
      BY DEF FocusInit, EntryOrNone, ClosedUndo
<1> QED BY <1>1 DEF FocusInit, FocusInv, FocusTypeOK, FocusFollowsAddress, EntryOrNone

LEMMA FocusStep == FocusInv /\ [FocusNext]_focusVars => FocusInv'
<1> SUFFICES ASSUME FocusInv, [FocusNext]_focusVars PROVE FocusInv'
    OBVIOUS
<1> USE DEF FocusInv, FocusTypeOK, FocusFollowsAddress, EntryOrNone
<1>1. ASSUME NEW e \in FocusEntries, FocusLoadAll(e) \/ AllAnswered(e) PROVE FocusInv'
      BY <1>1 DEF FocusLoadAll, AllAnswered
<1>2. ASSUME NEW e \in FocusEntries, AskUndo(e) PROVE FocusInv'
      BY <1>2 DEF AskUndo, ClosedUndo
<1>3. CASE ClearFocus
      BY <1>3 DEF ClearFocus, Unpin
<1>4. CASE FocusArrives
      BY <1>4 DEF FocusArrives
<1>5. CASE FocusFails
      BY <1>5 DEF FocusFails
<1>6. CASE LeaveUndo
      BY <1>6 DEF LeaveUndo, ClosedUndo
<1>7. CASE ConfirmUndo
      BY <1>7 DEF ConfirmUndo
<1>8. CASE UndoRefused
      BY <1>8 DEF UndoRefused
<1>9. CASE UndoDone
      BY <1>9 DEF UndoDone, LoadFocus, ClosedUndo
<1>10. CASE UNCHANGED focusVars
      BY <1>10 DEF focusVars
<1> QED BY <1>1, <1>2, <1>3, <1>4, <1>5, <1>6, <1>7, <1>8, <1>9, <1>10 DEF FocusNext

-----------------------------------------------------------------------------
(* HistoryList: only a valid filter is asked for, and an answer without an  *)
(* entry of the first page says that none match.                            *)

RequestIsSound ==
    /\ request.read => request.on
    /\ request.on => historyFilter.valid
    /\ request.read /\ request.shown = 0 /\ offset = 0 => request.total = 0

HistoryInv == HistoryTypeOK /\ HistoryIsTrue /\ RequestIsSound

(* A request that starts, and none.                                         *)

RequestType == [on : BOOLEAN, read : BOOLEAN, shown : 0..1, total : 0..EntryBound]

LEMMA NewRequest ==
    /\ NoListRequest \in RequestType /\ NoListRequest.on = FALSE /\ NoListRequest.read = FALSE
    /\ [NoListRequest EXCEPT !.on = TRUE] \in RequestType
    /\ [NoListRequest EXCEPT !.on = TRUE].on = TRUE
    /\ [NoListRequest EXCEPT !.on = TRUE].read = FALSE
<1>1. 0 \in 0..EntryBound /\ 0 \in 0..1
      BY HistoryAssumption
<1> QED BY <1>1 DEF NoListRequest, RequestType

LEMMA HistoryInitInv == HistoryInit => HistoryInv
<1> SUFFICES ASSUME HistoryInit PROVE HistoryInv
    OBVIOUS
<1>1. request \in RequestType /\ request.on /\ ~request.read
      BY NewRequest DEF HistoryInit
<1>2. /\ historyFilter \in [q : Searches, valid : BOOLEAN] /\ historyFilter.valid
      /\ search \in Searches
      BY DEF HistoryInit, Searches
<1>3. 0 \in 0..EntryBound /\ 0 \in 0..1
      BY HistoryAssumption
<1>4. /\ list \in [loaded : BOOLEAN, failed : BOOLEAN, shown : 0..1,
                   total : 0..EntryBound, q : Searches]
      /\ ~list.loaded
      BY <1>3 DEF HistoryInit, Searches
<1>5. /\ drawer \in [entry : {0} \cup Entries, full : {0} \cup Entries,
                     loading : SUBSET Entries]
      /\ drawer.full = 0
      BY DEF HistoryInit, NoDrawer
<1>6. offset \in 0..EntryBound
      BY <1>3 DEF HistoryInit
<1> QED BY <1>1, <1>2, <1>4, <1>5, <1>6
        DEF HistoryInit, HistoryInv, HistoryTypeOK, HistoryIsTrue, RequestIsSound, RequestType,
            EmptyMeansNone, ListAnswersFilter, DrawerShowsItsEntry

(* A change of the filter or the page asks anew, or not at all.             *)

LEMMA LoadInv ==
    ASSUME HistoryInv, Load, search' \in Searches,
           historyFilter' \in [q : Searches, valid : BOOLEAN], offset' \in 0..EntryBound,
           UNCHANGED <<where, matching, list, drawer>>
    PROVE  HistoryInv'
<1>1. \/ historyFilter'.valid /\ request' = [NoListRequest EXCEPT !.on = TRUE]
      \/ ~historyFilter'.valid /\ request' = NoListRequest
      BY DEF Load
<1>2. /\ request' \in RequestType
      /\ request'.on = historyFilter'.valid /\ ~request'.read
      BY <1>1, NewRequest
<1>3. HistoryIsTrue'
      BY <1>2 DEF HistoryInv, HistoryIsTrue, EmptyMeansNone, ListAnswersFilter, DrawerShowsItsEntry
<1> QED BY <1>2, <1>3 DEF HistoryInv, HistoryTypeOK, RequestIsSound, RequestType

LEMMA HistoryStep == HistoryInv /\ [HistoryNext]_historyVars => HistoryInv'
<1> SUFFICES ASSUME HistoryInv, [HistoryNext]_historyVars PROVE HistoryInv'
    OBVIOUS
<1> USE HistoryAssumption
<1>1. /\ historyFilter \in [q : Searches, valid : BOOLEAN] /\ offset \in 0..EntryBound
      /\ list.total \in 0..EntryBound /\ search \in Searches /\ 0 \in 0..EntryBound
      BY DEF HistoryInv, HistoryTypeOK
<1>2. ASSUME NEW s \in Searches, TypeSearch(s) PROVE HistoryInv'
      BY <1>2 DEF TypeSearch, HistoryInv, HistoryTypeOK, HistoryIsTrue, RequestIsSound,
                  EmptyMeansNone, ListAnswersFilter, DrawerShowsItsEntry
<1>3. ASSUME NEW p \in 0..EntryBound, TurnPage(p) PROVE HistoryInv'
      BY <1>1, <1>3, LoadInv DEF TurnPage
<1>4. ASSUME NEW v \in BOOLEAN, SetPeriod(v) PROVE HistoryInv'
      BY <1>1, <1>4, LoadInv DEF SetPeriod, PageAfterFilter
<1>5. ASSUME NEW q \in Searches, NEW v \in BOOLEAN, NEW p \in 0..EntryBound, Navigate(q, v, p)
      PROVE  HistoryInv'
      BY <1>1, <1>5, LoadInv DEF Navigate
<1>6. CASE SearchApplied
      BY <1>1, <1>6, LoadInv DEF SearchApplied, PageAfterFilter
<1>7. CASE ResetFilters
      BY <1>1, <1>7, LoadInv DEF ResetFilters, Searches
<1>8. CASE Refresh
      BY <1>1, <1>8, LoadInv DEF Refresh
<1>9. CASE EntriesChange
      BY <1>9 DEF EntriesChange, HistoryInv, HistoryTypeOK, HistoryIsTrue, RequestIsSound,
                  EmptyMeansNone, ListAnswersFilter, DrawerShowsItsEntry
<1>10. CASE ListRead
  <2>1. matching[historyFilter.q] \in 0..EntryBound
        BY <1>1 DEF HistoryInv, HistoryTypeOK, Matchings
  <2>2. /\ request' \in [on : BOOLEAN, read : BOOLEAN, shown : 0..1, total : 0..EntryBound]
        /\ request'.on /\ request'.read /\ request.on
        /\ request'.shown = 0 /\ offset = 0 => request'.total = 0
        BY <1>10, <2>1 DEF ListRead
  <2> QED BY <1>10, <2>2 DEF ListRead, HistoryInv, HistoryTypeOK, HistoryIsTrue, RequestIsSound,
                  EmptyMeansNone, ListAnswersFilter, DrawerShowsItsEntry
<1>11. CASE ListArrives
  <2>1. /\ request.total \in 0..EntryBound /\ request.shown \in 0..1
        /\ list' \in [loaded : BOOLEAN, failed : BOOLEAN, shown : 0..1,
                      total : 0..EntryBound, q : Searches]
        /\ list'.q = historyFilter.q /\ list'.shown = request.shown /\ list'.total = request.total
        BY <1>1, <1>11 DEF ListArrives, HistoryInv, HistoryTypeOK
  <2>2. CASE BehindEnd
    <3>1. /\ request' = [NoListRequest EXCEPT !.on = TRUE] /\ historyFilter.valid
          /\ offset' = request.total - 1 /\ request.total > 0
          BY <1>11, <2>2 DEF ListArrives, BehindEnd, Load, HistoryInv, RequestIsSound
    <3>2. /\ request' \in [on : BOOLEAN, read : BOOLEAN, shown : 0..1, total : 0..EntryBound]
          /\ request'.on /\ ~request'.read
          BY <3>1, NewRequest DEF RequestType
    <3>4. offset' \in 0..EntryBound
          BY <3>1, <2>1
    <3> QED BY <1>11, <2>1, <3>1, <3>2, <3>4
            DEF ListArrives, HistoryInv, HistoryTypeOK, HistoryIsTrue, RequestIsSound,
                EmptyMeansNone, ListAnswersFilter, DrawerShowsItsEntry
  <2>3. CASE ~BehindEnd
    <3>1. request' = NoListRequest /\ offset' = offset
          BY <1>11, <2>3 DEF ListArrives
    <3>2. /\ request' \in [on : BOOLEAN, read : BOOLEAN, shown : 0..1, total : 0..EntryBound]
          /\ ~request'.on /\ ~request'.read
          BY <3>1 DEF NoListRequest
    <3>3. where = "zone" /\ request.shown = 0 => request.total = 0
          BY <1>1, <1>11, <2>1, <2>3 DEF ListArrives, BehindEnd, HistoryInv, RequestIsSound
    <3> QED BY <1>11, <2>1, <3>1, <3>2, <3>3
            DEF ListArrives, HistoryInv, HistoryTypeOK, HistoryIsTrue, RequestIsSound,
                EmptyMeansNone, ListAnswersFilter, DrawerShowsItsEntry
  <2> QED BY <2>2, <2>3
<1>12. CASE ListFails
  <2>1. /\ request' \in RequestType /\ ~request'.on /\ ~request'.read
        /\ list' \in [loaded : BOOLEAN, failed : BOOLEAN, shown : 0..1,
                      total : 0..EntryBound, q : Searches]
        /\ list'.failed
        BY <1>12, NewRequest DEF ListFails, HistoryInv, HistoryTypeOK
  <2> QED BY <1>12, <2>1
          DEF ListFails, HistoryInv, HistoryTypeOK, HistoryIsTrue, RequestType,
              RequestIsSound, EmptyMeansNone, ListAnswersFilter, DrawerShowsItsEntry
<1>13. ASSUME NEW e \in Entries, OpenEntry(e) \/ EntryArrives(e) \/ CloseEntry \/ LoadEntry
       PROVE  HistoryInv'
  <2>0. /\ drawer \in [entry : {0} \cup Entries, full : {0} \cup Entries,
                       loading : SUBSET Entries]
        /\ drawer.full \in {0, drawer.entry}
        BY DEF HistoryInv, HistoryTypeOK, HistoryIsTrue, DrawerShowsItsEntry
  <2>1. /\ drawer' \in [entry : {0} \cup Entries, full : {0} \cup Entries,
                        loading : SUBSET Entries]
        /\ drawer'.full \in {0, drawer'.entry}
    <3>1. CASE OpenEntry(e)
          BY <2>0, <3>1 DEF OpenEntry
    <3>2. CASE EntryArrives(e)
          BY <2>0, <3>2 DEF EntryArrives, Kept
    <3>3. CASE CloseEntry
          BY <2>0, <3>3 DEF CloseEntry
    <3>4. CASE LoadEntry
          BY <2>0, <3>4 DEF LoadEntry
    <3> QED BY <1>13, <3>1, <3>2, <3>3, <3>4
  <2> QED BY <1>13, <2>1
          DEF OpenEntry, EntryArrives, CloseEntry, LoadEntry, HistoryInv,
              HistoryTypeOK, HistoryIsTrue, RequestIsSound, EmptyMeansNone, ListAnswersFilter,
              DrawerShowsItsEntry
<1>14. CASE UNCHANGED historyVars
      BY <1>14 DEF historyVars, HistoryInv, HistoryTypeOK, HistoryIsTrue, RequestIsSound,
                   EmptyMeansNone, ListAnswersFilter, DrawerShowsItsEntry
<1> QED
  <2>1. CASE CloseEntry \/ LoadEntry
        BY <1>13, <2>1 DEF Entries
  <2> QED BY <1>2, <1>3, <1>4, <1>5, <1>6, <1>7, <1>8, <1>9, <1>10, <1>11, <1>12, <1>13, <1>14,
             <2>1 DEF HistoryNext

-----------------------------------------------------------------------------
(* WebhookLog: only the request made last may count, and unless a retry     *)
(* made it, it is for the view that is chosen; without such a request the   *)
(* list answers the view, or a retry is being sent, or the load failed.     *)

OnlyTheLastCounts == \A i \in DOMAIN logLoads :
    logLoads[i].newest => /\ i = Len(logLoads)
                          /\ logLoads[i].by # "retry" => logLoads[i].view = view

NoneCounts == \A i \in DOMAIN logLoads : ~logLoads[i].newest

ListIsOfItsView ==
    NoneCounts /\ ~broken /\ retry.at # "sent" /\ logRows.by # "retry" => logRows.for = view

LogInv ==
    /\ WebhookLogTypeOK
    /\ retry \in [at : {"none", "sent", "reload"}, view : Views \cup {<<>>}]
    /\ retry.at # "none" => retry.view \in Views
    /\ OnlyTheLastCounts /\ ListIsOfItsView

LEMMA LogInvShows == LogInv => LogAnswersItsView
BY DEF LogInv, ListIsOfItsView, NoneCounts, LogAnswersItsView

LEMMA NoRetryType ==
    NoRetry \in [at : {"none", "sent", "reload"}, view : Views \cup {<<>>}] /\ NoRetry.at = "none"
BY DEF NoRetry

(* A new request counts, and no other.                                      *)

LEMMA LoadLogCounts ==
    ASSUME WebhookLogTypeOK, NEW v \in Views, NEW by \in {"page", "timer", "retry"},
           LoadLog(v, by)
    PROVE  /\ logLoads' \in Seq(Asks) /\ Len(logLoads') <= LoadsBound /\ loading' \in BOOLEAN
           /\ Len(logLoads') \in Nat \ {0}
           /\ logLoads'[Len(logLoads')] = Ask(v, by)
           /\ \A i \in DOMAIN logLoads' : i # Len(logLoads') => ~logLoads'[i].newest
<1> DEFINE old == [i \in DOMAIN logLoads |-> [logLoads[i] EXCEPT !.newest = FALSE]]
           kept == IF Len(logLoads) = LoadsBound THEN Tail(old) ELSE old
           Dropped == [view : Views, by : {"page", "timer", "retry"}, newest : {FALSE}]
<1>1. logLoads \in Seq(Asks) /\ Len(logLoads) \in Nat /\ Len(logLoads) <= LoadsBound
      BY DEF WebhookLogTypeOK
<1>2. \A i \in 1..Len(logLoads) : [logLoads[i] EXCEPT !.newest = FALSE] \in Dropped
  <2> SUFFICES ASSUME NEW i \in 1..Len(logLoads)
               PROVE  [logLoads[i] EXCEPT !.newest = FALSE] \in Dropped
      OBVIOUS
  <2>1. logLoads[i] \in Asks
        BY <1>1
  <2> QED BY <2>1 DEF Asks
<1>3. old \in Seq(Dropped) /\ Len(old) = Len(logLoads)
  <2>0. DOMAIN logLoads = 1..Len(logLoads)
        BY <1>1
  <2>1. old \in [DOMAIN logLoads -> Dropped]
    <3> HIDE DEF Dropped
    <3> QED BY <1>2, <2>0 DEF old
  <2> HIDE DEF old, Dropped
  <2> QED BY <1>1, <2>1, ChangedInPlace
<1> HIDE DEF old, Dropped
<1>4. kept \in Seq(Dropped) /\ Len(kept) < LoadsBound /\ Len(kept) \in Nat
  <2>1. CASE Len(logLoads) = LoadsBound
    <3>1. old # <<>>
          BY <1>1, <1>3, <2>1, LogAssumption
    <3>2. Tail(old) \in Seq(Dropped) /\ Len(Tail(old)) = Len(old) - 1
          BY <1>3, <3>1, HeadTailProperties
    <3> QED BY <1>1, <1>3, <2>1, <3>2, LogAssumption
  <2>2. CASE Len(logLoads) # LoadsBound
        BY <1>1, <1>3, <2>2, LogAssumption
  <2> QED BY <2>1, <2>2
<1> HIDE DEF kept
<1>5. Ask(v, by) \in Asks /\ Dropped \subseteq Asks
      BY DEF Ask, Asks, Dropped
<1>6. kept \in Seq(Asks)
      BY <1>4, <1>5
<1>7. logLoads' = Append(kept, Ask(v, by)) /\ loading' = (loading \/ by = "page")
      BY DEF LoadLog, old, kept
<1>8. /\ logLoads' \in Seq(Asks) /\ Len(logLoads') = Len(kept) + 1
      /\ \A i \in 1..Len(kept) : logLoads'[i] = kept[i]
      /\ logLoads'[Len(kept) + 1] = Ask(v, by)
      BY <1>5, <1>6, <1>7, AppendProperties
<1>9. \A i \in DOMAIN logLoads' : i # Len(logLoads') => ~logLoads'[i].newest
  <2> SUFFICES ASSUME NEW i \in DOMAIN logLoads', i # Len(logLoads')
               PROVE  ~logLoads'[i].newest
      OBVIOUS
  <2>1. i \in 1..Len(kept)
        BY <1>4, <1>8
  <2>2. logLoads'[i] = kept[i] /\ kept[i] \in Dropped
        BY <1>4, <1>8, <2>1
  <2> QED BY <2>2 DEF Dropped
<1> QED BY <1>4, <1>7, <1>8, <1>9, LogAssumption DEF WebhookLogTypeOK

LEMMA LoadLogInv ==
    ASSUME LogInv, NEW v \in Views, NEW by \in {"page", "timer", "retry"}, LoadLog(v, by),
           view' \in Views, by # "retry" => v = view',
           retry' \in [at : {"none", "sent", "reload"}, view : Views \cup {<<>>}],
           retry'.at # "none" => retry'.view \in Views,
           UNCHANGED <<logRows, broken>>
    PROVE  LogInv'
<1>1. /\ logLoads' \in Seq(Asks) /\ Len(logLoads') <= LoadsBound /\ loading' \in BOOLEAN
      /\ Len(logLoads') \in Nat \ {0}
      /\ logLoads'[Len(logLoads')] = Ask(v, by)
      /\ \A i \in DOMAIN logLoads' : i # Len(logLoads') => ~logLoads'[i].newest
      BY LoadLogCounts DEF LogInv
<1>2. Ask(v, by).newest = TRUE /\ Ask(v, by).view = v /\ Ask(v, by).by = by
      BY DEF Ask
<1>3. OnlyTheLastCounts'
      BY <1>1, <1>2 DEF OnlyTheLastCounts
<1>4. Len(logLoads') \in DOMAIN logLoads'
      BY <1>1
<1>5. ~NoneCounts'
      BY <1>1, <1>2, <1>4 DEF NoneCounts
<1> QED BY <1>1, <1>3, <1>5 DEF LogInv, WebhookLogTypeOK, ListIsOfItsView

LEMMA ViewParts == view \in Views => view[1] \in LogFilters /\ view[2] \in {0, 1}
BY DEF Views

LEMMA ArrivesInv ==
    ASSUME LogInv, NEW i \in DOMAIN logLoads, NEW ok \in BOOLEAN, NEW open \in BOOLEAN,
           NEW more \in BOOLEAN, Arrives(i, ok, open, more)
    PROVE  LogInv'
<1>1. /\ logLoads \in Seq(Asks) /\ i \in 1..Len(logLoads) /\ Len(logLoads) \in Nat
      /\ logLoads[i] \in Asks
      BY DEF LogInv, WebhookLogTypeOK
<1>2. /\ logLoads' \in Seq(Asks) /\ Len(logLoads') = Len(logLoads) - 1
      /\ \A j \in 1..Len(logLoads) - 1 : logLoads'[j] = IF j < i THEN logLoads[j]
                                                       ELSE logLoads[j + 1]
  <2>1. logLoads' = SubSeq(logLoads, 1, i - 1) \o SubSeq(logLoads, i + 1, Len(logLoads))
        BY DEF Arrives, RemoveAt
  <2> QED BY <1>1, <2>1, WithoutRequest
<1>3. /\ retry' = IF retry.at = "reload" /\ logLoads[i].by = "retry" THEN NoRetry ELSE retry
      /\ broken' = IF NewestLoad(i) THEN ~ok ELSE broken
      /\ loading' = (loading /\ ~NewestLoad(i)) /\ view' = view
      /\ logRows' = IF NewestLoad(i) /\ ok
                    THEN [for |-> logLoads[i].view, by |-> logLoads[i].by,
                          open |-> open, more |-> more]
                    ELSE logRows
      BY DEF Arrives
<1>4. /\ retry' \in [at : {"none", "sent", "reload"}, view : Views \cup {<<>>}]
      /\ retry'.at # "none" => retry'.view \in Views
      /\ retry'.at # "sent" => retry.at # "sent"
      BY <1>3, NoRetryType DEF LogInv
<1>5. WebhookLogTypeOK'
  <2>1. Len(logLoads') <= LoadsBound
        BY <1>1, <1>2, LogAssumption DEF LogInv, WebhookLogTypeOK
  <2>2. logLoads[i].view \in Views /\ logLoads[i].by \in {"page", "timer", "retry"}
        BY <1>1 DEF Asks
  <2>3. /\ logRows'.for \in Views \cup {<<>>} /\ logRows'.by \in {"none", "page", "timer", "retry"}
        /\ {logRows'.open, logRows'.more} \subseteq BOOLEAN
        BY <1>3, <2>2 DEF LogInv, WebhookLogTypeOK
  <2>4. loading' \in BOOLEAN /\ broken' \in BOOLEAN
        BY <1>3 DEF LogInv, WebhookLogTypeOK
  <2> QED BY <1>2, <1>3, <1>4, <2>1, <2>3, <2>4 DEF LogInv, WebhookLogTypeOK
\* Behind the one that arrives there is only the newest, in the place before.
<1>6. ASSUME NEW j \in DOMAIN logLoads', logLoads'[j].newest
      PROVE  /\ j = Len(logLoads') /\ ~NewestLoad(i)
             /\ logLoads'[j].by # "retry" => logLoads'[j].view = view
  <2>1. j \in 1..Len(logLoads) - 1
        BY <1>1, <1>2
  <2>2. CASE j < i
    <3>1. logLoads'[j] = logLoads[j] /\ j \in DOMAIN logLoads /\ j # Len(logLoads)
          BY <1>1, <1>2, <2>1, <2>2
    <3> QED BY <1>6, <3>1 DEF LogInv, OnlyTheLastCounts
  <2>3. CASE ~(j < i)
    <3>1. logLoads'[j] = logLoads[j + 1] /\ j + 1 \in DOMAIN logLoads
          BY <1>1, <1>2, <2>1, <2>3
    <3>2. /\ j + 1 = Len(logLoads)
          /\ logLoads[j + 1].by # "retry" => logLoads[j + 1].view = view
          BY <1>6, <3>1 DEF LogInv, OnlyTheLastCounts
    <3>3. i # Len(logLoads)
          BY <1>1, <2>1, <2>3, <3>2
    <3> QED BY <1>2, <2>1, <3>1, <3>2, <3>3 DEF LogInv, OnlyTheLastCounts, NewestLoad
  <2> QED BY <2>2, <2>3
<1>7. OnlyTheLastCounts'
      BY <1>3, <1>6 DEF OnlyTheLastCounts
<1>8. ListIsOfItsView'
  <2> SUFFICES ASSUME NoneCounts', ~broken', retry'.at # "sent", logRows'.by # "retry"
               PROVE  logRows'.for = view
      BY <1>3 DEF ListIsOfItsView
  <2>1. CASE NewestLoad(i)
    <3>1. ok
          BY <1>3, <2>1
    <3>2. logRows'.for = logLoads[i].view /\ logRows'.by = logLoads[i].by
          BY <1>3, <2>1, <3>1
    <3> QED BY <2>1, <3>2 DEF LogInv, OnlyTheLastCounts, NewestLoad
  <2>2. CASE ~NewestLoad(i)
    <3>1. logRows' = logRows /\ broken' = broken
          BY <1>3, <2>2
    <3>2. NoneCounts
      <4> SUFFICES ASSUME NEW j \in DOMAIN logLoads, logLoads[j].newest PROVE FALSE
          BY DEF NoneCounts
      <4>1. j = Len(logLoads) /\ j # i
            BY <2>2 DEF LogInv, OnlyTheLastCounts, NewestLoad
      <4>2. j - 1 \in 1..Len(logLoads) - 1 /\ ~(j - 1 < i) /\ (j - 1) + 1 = j
            BY <1>1, <4>1
      <4>3. logLoads'[j - 1] = logLoads[j] /\ j - 1 \in DOMAIN logLoads'
            BY <1>2, <4>2
      <4> QED BY <4>3 DEF NoneCounts
    <3> QED BY <1>4, <3>1, <3>2 DEF LogInv, ListIsOfItsView
  <2> QED BY <2>1, <2>2
<1> QED BY <1>4, <1>5, <1>7, <1>8 DEF LogInv

(* The steps of a retry: the list of requests stays.                        *)

LEMMA RetryInv ==
    ASSUME LogInv, Retry \/ RetryFails \/ RetryOvertaken
    PROVE  LogInv'
<1>1. /\ UNCHANGED <<view, logLoads, loading, logRows>> /\ broken' \in BOOLEAN
      BY DEF Retry, RetryFails, RetryOvertaken, LogInv, WebhookLogTypeOK
<1>2. /\ retry' \in [at : {"none", "sent", "reload"}, view : Views \cup {<<>>}]
      /\ retry'.at # "none" => retry'.view \in Views
  <2>1. CASE Retry
    <3>1. view \in Views
          BY DEF LogInv, WebhookLogTypeOK
    <3> QED BY <2>1, <3>1 DEF Retry
  <2> QED BY <2>1, NoRetryType DEF RetryFails, RetryOvertaken
<1>3. OnlyTheLastCounts'
      BY <1>1 DEF LogInv, OnlyTheLastCounts
<1>4. ListIsOfItsView'
  <2>1. CASE Retry
        BY <2>1 DEF Retry, ListIsOfItsView
  <2>2. CASE RetryFails
        BY <2>2 DEF RetryFails, ListIsOfItsView
  <2>3. CASE RetryOvertaken
        BY <2>3 DEF RetryOvertaken, ListIsOfItsView, NoneCounts, LogInv
  <2> QED BY <2>1, <2>2, <2>3
<1> QED BY <1>1, <1>2, <1>3, <1>4 DEF LogInv, WebhookLogTypeOK

LEMMA WebhookLogInitInv == WebhookLogInit => LogInv
<1> SUFFICES ASSUME WebhookLogInit PROVE LogInv
    OBVIOUS
<1>1. view \in Views /\ Ask(view, "page") \in Asks /\ Ask(view, "page").newest = TRUE
      /\ Ask(view, "page").view = view
      BY DEF WebhookLogInit, Views, Asks, Ask
<1>2. logLoads = <<Ask(view, "page")>>
      BY DEF WebhookLogInit
<1>3. logLoads \in Seq(Asks) /\ Len(logLoads) = 1 /\ logLoads[1] = Ask(view, "page")
      BY <1>1, <1>2
<1>4. DOMAIN logLoads = {1}
      BY <1>3
<1>5. OnlyTheLastCounts /\ ~NoneCounts
      BY <1>1, <1>3, <1>4 DEF OnlyTheLastCounts, NoneCounts
<1>6. /\ Len(logLoads) <= LoadsBound /\ loading \in BOOLEAN /\ broken \in BOOLEAN
      /\ retry = NoRetry
  <2>1. Len(logLoads) <= LoadsBound
        BY <1>3, LogAssumption
  <2>2. loading = TRUE /\ broken = FALSE /\ retry = NoRetry
        BY DEF WebhookLogInit
  <2> QED BY <2>1, <2>2
<1>7. logRows.for = <<>> /\ logRows.by = "none" /\ logRows.open = FALSE /\ logRows.more = FALSE
      BY DEF WebhookLogInit
<1>8. WebhookLogTypeOK
  <2>1. retry.at = "none" /\ retry.view \in Views \cup {<<>>}
        BY <1>6, NoRetryType
  <2>2. {logRows.open, logRows.more, loading, broken} \subseteq BOOLEAN
        BY <1>6, <1>7
  <2>3. logRows.for \in Views \cup {<<>>}
        BY <1>7
  <2> QED BY <1>1, <1>3, <1>6, <1>7, <2>1, <2>2, <2>3 DEF WebhookLogTypeOK
<1> QED BY <1>5, <1>6, <1>8, NoRetryType DEF LogInv, ListIsOfItsView

LEMMA WebhookLogStep == LogInv /\ [WebhookLogNext]_logVars => LogInv'
<1> SUFFICES ASSUME LogInv, [WebhookLogNext]_logVars PROVE LogInv'
    OBVIOUS
<1>1. /\ view \in Views /\ view[1] \in LogFilters
      /\ retry \in [at : {"none", "sent", "reload"}, view : Views \cup {<<>>}]
      /\ retry.at # "none" => retry.view \in Views
      BY ViewParts DEF LogInv, WebhookLogTypeOK
<1>2. ASSUME NEW f \in LogFilters, ChangeFilter(f) PROVE LogInv'
  <2>1. view' = <<f, 0>> /\ view' \in Views
        BY <1>2 DEF ChangeFilter, Views
  <2> QED BY <1>1, <1>2, <2>1, LoadLogInv DEF ChangeFilter
<1>3. ASSUME NEW p \in {0, 1}, Page(p) PROVE LogInv'
  <2>1. view' = <<view[1], p>>
        BY <1>3 DEF Page
  <2>3. view' \in Views
        BY <1>1, <2>1 DEF Views
  <2>4. LoadLog(view', "page") /\ UNCHANGED <<logRows, broken, retry>>
        BY <1>3 DEF Page
  <2> QED BY <1>1, <2>3, <2>4, LoadLogInv
<1>4. CASE RefreshButton
      BY <1>1, <1>4, LoadLogInv DEF RefreshButton
<1>5. CASE AutoRefresh
      BY <1>1, <1>5, LoadLogInv DEF AutoRefresh
<1>6. CASE RetryAnswered
      BY <1>1, <1>6, LoadLogInv DEF RetryAnswered
<1>7. CASE UNCHANGED logVars
      BY <1>7 DEF logVars, LogInv, WebhookLogTypeOK, OnlyTheLastCounts, ListIsOfItsView, NoneCounts
<1> QED BY <1>2, <1>3, <1>4, <1>5, <1>6, <1>7, ArrivesInv, RetryInv DEF WebhookLogNext

-----------------------------------------------------------------------------
(* WebhookForm: what the filters made from the boxes match is what the      *)
(* boxes show; filters of the same meaning match the same events.           *)

FormShows(t) == Ticked(t) \cup (IF t.all THEN {} ELSE UNION {MatchedBy(f) : f \in t.legacy})

HookInv ==
    /\ WebhookFormTypeOK
    /\ webhookTold \in {"saved", "unchanged"} => ~tree.open /\ Wanted(hook.filters) = FormShows(tree)

LEMMA FilterKinds ==
    /\ \A f \in Filters : \/ f = All \/ f = <<"old", "old">>
                          \/ \E c \in Categories : f \in {<<"category", c>>, <<"star", c>>}
                          \/ \E e \in Events : f = <<"event", e>>
    /\ All \in Filters /\ All \notin Tokens /\ All \notin Old
    /\ Tokens = ({"category"} \X Categories) \cup ({"event"} \X Events)
    /\ Old = {<<"old", "old">>} /\ Tokens \subseteq Filters /\ Old \subseteq Filters
<1>1. \A f \in Filters : \/ f = All \/ f = <<"old", "old">>
                         \/ \E c \in Categories : f \in {<<"category", c>>, <<"star", c>>}
                         \/ \E e \in Events : f = <<"event", e>>
      BY DEF Filters
<1>2. All \in Filters /\ All \notin Tokens /\ All \notin Old
      BY DEF Filters, Tokens, Old, All
<1>3. Tokens = ({"category"} \X Categories) \cup ({"event"} \X Events)
      BY DEF Filters, Tokens, All
<1>4. Old = {<<"old", "old">>}
      BY DEF Filters, Old, All
<1>5. Tokens \subseteq Filters /\ Old \subseteq Filters
      BY DEF Tokens, Old
<1> QED BY <1>1, <1>2, <1>3, <1>4, <1>5

LEMMA Matching ==
    /\ MatchedBy(All) = Events
    /\ MatchedBy(<<"old", "old">>) = OldMatches
    /\ \A c \in Categories : /\ MatchedBy(<<"category", c>>) = {e \in Events : CategoryOf[e] = c}
                             /\ MatchedBy(<<"star", c>>) = {e \in Events : CategoryOf[e] = c}
    /\ \A e \in Events : MatchedBy(<<"event", e>>) = {e}
    /\ \A f \in Filters : MatchedBy(f) \subseteq Events
<1>1. MatchedBy(All) = Events
      BY DEF MatchedBy, All
<1>2. MatchedBy(<<"old", "old">>) = OldMatches
      BY DEF MatchedBy, All
<1>3. ASSUME NEW c \in Categories
      PROVE  /\ MatchedBy(<<"category", c>>) = {e \in Events : CategoryOf[e] = c}
             /\ MatchedBy(<<"star", c>>) = {e \in Events : CategoryOf[e] = c}
      BY DEF MatchedBy, All
<1>4. ASSUME NEW e \in Events PROVE MatchedBy(<<"event", e>>) = {e}
      BY DEF MatchedBy, All
<1>5. ASSUME NEW f \in Filters PROVE MatchedBy(f) \subseteq Events
  <2>1. CASE f = All
        BY <1>1, <2>1
  <2>2. CASE f = <<"old", "old">>
        BY <1>2, <2>2, WebhookFormAssumption
  <2>3. ASSUME NEW c \in Categories, f \in {<<"category", c>>, <<"star", c>>}
        PROVE  MatchedBy(f) \subseteq Events
        BY <1>3, <2>3
  <2>4. ASSUME NEW e \in Events, f = <<"event", e>> PROVE MatchedBy(f) \subseteq Events
        BY <1>4, <2>4
  <2> QED BY <2>1, <2>2, <2>3, <2>4, FilterKinds
<1> QED BY <1>1, <1>2, <1>3, <1>4, <1>5

(* All the filters match, each for itself.                                  *)

LEMMA WantedBy ==
    ASSUME NEW filters \in SUBSET Filters
    PROVE  /\ filters = {} \/ All \in filters => Wanted(filters) = Events
           /\ filters # {} => \A e : e \in Wanted(filters) <=> \E f \in filters : e \in MatchedBy(f)
BY Matching DEF Wanted

LEMMA StoredWanted ==
    ASSUME NEW filters \in SUBSET Filters
    PROVE  StoredFilters(filters) \in SUBSET Filters
           /\ Wanted(StoredFilters(filters)) = Wanted(filters)
BY WantedBy, FilterKinds DEF StoredFilters

LEMMA PlainlyWanted ==
    ASSUME NEW filters \in SUBSET Filters
    PROVE  Wanted(Plainly(filters)) = Wanted(filters)
<1> DEFINE Plain1(f) == IF f[1] = "star" THEN <<"category", f[2]>> ELSE f
<1>1. CASE filters = {} \/ All \in filters
  <2>1. Plainly(filters) = {All} /\ {All} \in SUBSET Filters
        BY <1>1, FilterKinds DEF Plainly
  <2> QED BY <1>1, <2>1, WantedBy
<1>2. CASE ~(filters = {} \/ All \in filters)
  <2>1. \A f \in filters : Plain1(f) \in Filters /\ MatchedBy(Plain1(f)) = MatchedBy(f)
    <3> SUFFICES ASSUME NEW f \in filters
                 PROVE  Plain1(f) \in Filters /\ MatchedBy(Plain1(f)) = MatchedBy(f)
        OBVIOUS
    <3>1. CASE f = All
          BY <3>1 DEF All, Filters
    <3>2. CASE f = <<"old", "old">>
          BY <3>2 DEF Filters
    <3>3. ASSUME NEW c \in Categories, f \in {<<"category", c>>, <<"star", c>>}
          PROVE  Plain1(f) \in Filters /\ MatchedBy(Plain1(f)) = MatchedBy(f)
      <4>1. Plain1(f) = <<"category", c>>
            BY <3>3
      <4>2. <<"category", c>> \in Filters
            BY DEF Filters
      <4> QED BY <3>3, <4>1, <4>2, Matching
    <3>4. ASSUME NEW e \in Events, f = <<"event", e>>
          PROVE  Plain1(f) \in Filters /\ MatchedBy(Plain1(f)) = MatchedBy(f)
          BY <3>4 DEF Filters
    <3> QED BY <3>1, <3>2, <3>3, <3>4, FilterKinds
  <2>2. Plainly(filters) = {Plain1(f) : f \in filters}
        BY <1>2 DEF Plainly
  <2> HIDE DEF Plain1
  <2>3. {Plain1(f) : f \in filters} \in SUBSET Filters /\ {Plain1(f) : f \in filters} # {}
        BY <1>2, <2>1
  <2>4. \A e : e \in Wanted({Plain1(f) : f \in filters}) <=> e \in Wanted(filters)
        BY <1>2, <2>1, <2>3, WantedBy
  <2> QED BY <2>2, <2>4
<1> QED BY <1>1, <1>2

(* An event the form has a tick for, and only that, is matched.             *)

LEMMA BuiltWanted ==
    ASSUME NEW t \in [open : BOOLEAN, edits : BOOLEAN, all : BOOLEAN, tokens : SUBSET Tokens,
                      legacy : SUBSET Old, url : BOOLEAN],
           BuildEventFilters(t) # {}
    PROVE  /\ BuildEventFilters(t) \in SUBSET Filters
           /\ Wanted(BuildEventFilters(t)) = FormShows(t)
<1> DEFINE built == BuildEventFilters(t)
<1>1. CASE t.all
  <2>1. built = {All} /\ Ticked(t) = Events /\ FormShows(t) = Events
        BY <1>1 DEF BuildEventFilters, Ticked, FormShows
  <2> QED BY <2>1, WantedBy, FilterKinds
<1>2. CASE ~t.all
  <2>1. built = t.legacy \cup {f \in t.tokens : f[1] = "event" =>
                                   <<"category", CategoryOf[f[2]]>> \notin t.tokens}
        BY <1>2 DEF BuildEventFilters
  <2>2. built \in SUBSET Filters
        BY <2>1, FilterKinds
  <2>3. \A e : e \in FormShows(t) <=> e \in Ticked(t) \/ \E f \in t.legacy : e \in MatchedBy(f)
        BY <1>2 DEF FormShows
  <2>4. ASSUME NEW e, e \in Wanted(built) PROVE e \in FormShows(t)
    <3>1. PICK f \in built : e \in MatchedBy(f)
          BY <2>2, <2>4, WantedBy
    <3>2. CASE f \in t.legacy
          BY <2>3, <3>1, <3>2
    <3>3. CASE f \notin t.legacy
      <4>1. f \in t.tokens /\ f \in Tokens
            BY <2>1, <3>3
      <4>2. ASSUME NEW c \in Categories, f = <<"category", c>> PROVE e \in Ticked(t)
        <5>1. e \in Events /\ CategoryOf[e] = c
              BY <3>1, <4>2, Matching
        <5>2. <<"category", CategoryOf[e]>> \in t.tokens
              BY <4>1, <4>2, <5>1
        <5> QED BY <5>1, <5>2 DEF Ticked
      <4>3. ASSUME NEW d \in Events, f = <<"event", d>> PROVE e \in Ticked(t)
            BY <3>1, <4>1, <4>3, Matching DEF Ticked
      <4>4. \/ \E c \in Categories : f = <<"category", c>>
            \/ \E d \in Events : f = <<"event", d>>
            BY <4>1, FilterKinds
      <4> QED BY <2>3, <4>2, <4>3, <4>4
    <3> QED BY <3>2, <3>3
  <2>5. ASSUME NEW e, e \in FormShows(t) PROVE e \in Wanted(built)
    <3>1. CASE \E f \in t.legacy : e \in MatchedBy(f)
          BY <2>1, <2>2, <3>1, WantedBy
    <3>2. CASE e \in Ticked(t)
      <4>1. e \in Events /\ CategoryOf[e] \in Categories
            BY <3>2, WebhookFormAssumption DEF Ticked
      <4>2. CASE <<"category", CategoryOf[e]>> \in t.tokens
        <5>1. <<"category", CategoryOf[e]>> \in built
              BY <2>1, <4>2
        <5>2. e \in MatchedBy(<<"category", CategoryOf[e]>>)
              BY <4>1, Matching
        <5> QED BY <2>2, <5>1, <5>2, WantedBy
      <4>3. CASE <<"category", CategoryOf[e]>> \notin t.tokens
        <5>1. <<"event", e>> \in t.tokens
              BY <1>2, <3>2, <4>3 DEF Ticked
        <5>2. <<"event", e>> \in built
              BY <2>1, <4>3, <5>1
        <5>3. e \in MatchedBy(<<"event", e>>)
              BY <4>1, Matching
        <5> QED BY <2>2, <5>2, <5>3, WantedBy
      <4> QED BY <4>2, <4>3
    <3> QED BY <2>3, <2>5, <3>1, <3>2
  <2> QED BY <2>2, <2>4, <2>5
<1> QED BY <1>1, <1>2

LEMMA ParsedType ==
    ASSUME NEW filters \in SUBSET Filters
    PROVE  /\ ParseEventFilters(filters).all \in BOOLEAN
           /\ ParseEventFilters(filters).tokens \in SUBSET Tokens
           /\ ParseEventFilters(filters).legacy \in SUBSET Old
<1>1. CASE All \in filters \/ filters = {}
      BY <1>1 DEF ParseEventFilters
<1>2. CASE ~(All \in filters \/ filters = {})
  <2>1. ASSUME NEW f \in filters, f[1] = "star" PROVE <<"category", f[2]>> \in Tokens
    <3>1. \E c \in Categories : f = <<"star", c>>
          BY <2>1, FilterKinds DEF All
    <3> QED BY <3>1, FilterKinds
  <2>2. ParseEventFilters(filters) =
           [all |-> FALSE, legacy |-> filters \cap Old,
            tokens |-> (filters \cap Tokens) \cup
                       {<<"category", f[2]>> : f \in {g \in filters : g[1] = "star"}}]
        BY <1>2 DEF ParseEventFilters
  <2> QED BY <2>1, <2>2
<1> QED BY <1>1, <1>2

TreeType == [open : BOOLEAN, edits : BOOLEAN, all : BOOLEAN, tokens : SUBSET Tokens,
             legacy : SUBSET Old, url : BOOLEAN]
HookType == [there : BOOLEAN, filters : SUBSET Filters, readable : BOOLEAN]

LEMMA WebhookFormInitInv == WebhookFormInit => HookInv
<1> SUFFICES ASSUME WebhookFormInit PROVE HookInv
    OBVIOUS
<1>1. hook \in HookType
      BY DEF WebhookFormInit, HookType
<1>2. tree \in TreeType
      BY DEF WebhookFormInit, NoTree, TreeType
<1>3. webhookTold = "nothing"
      BY DEF WebhookFormInit
<1> QED BY <1>1, <1>2, <1>3 DEF HookInv, WebhookFormTypeOK, HookType, TreeType

LEMMA OpenWebhookInv ==
    ASSUME HookInv, NEW edits \in BOOLEAN, OpenWebhook(edits)
    PROVE  HookInv'
<1> DEFINE filters == IF edits THEN hook.filters ELSE {All}
<1>1. hook \in HookType /\ filters \in SUBSET Filters
      BY FilterKinds DEF HookInv, WebhookFormTypeOK, HookType
<1> HIDE DEF filters
<1>2. tree' \in TreeType
      BY <1>1, ParsedType DEF OpenWebhook, filters, TreeType, HookType
<1> QED BY <1>1, <1>2 DEF OpenWebhook, HookInv, WebhookFormTypeOK, TreeType, HookType

(* Ticks are given and taken in the open form only.                         *)

LEMMA TreeInv ==
    ASSUME HookInv,
           \/ CloseWebhook \/ ToggleAllEvents
           \/ \E b \in BOOLEAN : TypeUrl(b)
           \/ \E f \in Tokens : ToggleToken(f)
           \/ \E f \in Old : RemoveLegacyFilter(f)
    PROVE  HookInv'
<1>1. tree.open /\ UNCHANGED <<hook, webhookTold>>
      BY DEF CloseWebhook, ToggleAllEvents, TypeUrl, ToggleToken, RemoveLegacyFilter
<1>2. tree \in TreeType
      BY DEF HookInv, WebhookFormTypeOK, TreeType
<1>3. tree' \in TreeType
  <2>1. CASE CloseWebhook
        BY <2>1 DEF CloseWebhook, NoTree, TreeType
  <2>2. CASE ToggleAllEvents
        BY <1>2, <2>2 DEF ToggleAllEvents, TreeType
  <2>3. ASSUME NEW b \in BOOLEAN, TypeUrl(b) PROVE tree' \in TreeType
        BY <1>2, <2>3 DEF TypeUrl, TreeType
  <2>4. ASSUME NEW f \in Tokens, ToggleToken(f) PROVE tree' \in TreeType
        BY <1>2, <2>4 DEF ToggleToken, TreeType
  <2>5. ASSUME NEW f \in Old, RemoveLegacyFilter(f) PROVE tree' \in TreeType
        BY <1>2, <2>5 DEF RemoveLegacyFilter, TreeType
  <2> QED BY <2>1, <2>2, <2>3, <2>4, <2>5
<1> QED BY <1>1, <1>3 DEF HookInv, WebhookFormTypeOK, TreeType

LEMMA SubmitWebhookInv == HookInv /\ SubmitWebhook => HookInv'
<1> SUFFICES ASSUME HookInv, SubmitWebhook PROVE HookInv'
    OBVIOUS
<1> DEFINE filters == BuildEventFilters(tree)
           delivers == FiltersSent(tree)
           new == IF delivers THEN StoredFilters(filters) ELSE hook.filters
<1>1. tree \in TreeType /\ hook \in HookType /\ tree.open
      BY DEF HookInv, WebhookFormTypeOK, TreeType, HookType, SubmitWebhook
<1>2. CASE ~Valid(tree)
      BY <1>1, <1>2 DEF SubmitWebhook, HookInv, WebhookFormTypeOK
<1>3. CASE Valid(tree) /\ delivers /\ ~Known(filters)
      BY <1>1, <1>3 DEF SubmitWebhook, HookInv, WebhookFormTypeOK
<1>4. CASE Valid(tree) /\ ~(delivers /\ ~Known(filters))
  <2>1. /\ hook' = [there |-> TRUE, readable |-> hook.readable \/ tree.url, filters |-> new]
        /\ webhookTold' \in {"saved", "unchanged"}
        /\ tree' = [tree EXCEPT !.open = FALSE]
        BY <1>4 DEF SubmitWebhook
  <2>2. filters \in SUBSET Filters /\ Wanted(filters) = FormShows(tree)
        BY <1>1, <1>4, BuiltWanted DEF Valid, TreeType
  <2>3. new \in SUBSET Filters /\ Wanted(new) = FormShows(tree)
    <3> HIDE DEF filters
    <3>1. CASE delivers
          BY <2>2, <3>1, StoredWanted
    <3>2. CASE ~delivers
      <4>1. Plainly(filters) = Plainly(hook.filters)
            BY <3>2 DEF FiltersSent, SameEventFilters, filters
      <4>2. hook.filters \in SUBSET Filters
            BY <1>1 DEF HookType
      <4> QED BY <2>2, <3>2, <4>1, <4>2, PlainlyWanted
    <3> QED BY <3>1, <3>2
  <2> HIDE DEF new
  <2>4. hook' \in HookType /\ hook'.filters = new
        BY <1>1, <2>1, <2>3 DEF HookType, TreeType
  <2>5. /\ tree' \in TreeType /\ ~tree'.open /\ tree'.all = tree.all
        /\ tree'.tokens = tree.tokens /\ tree'.legacy = tree.legacy
        BY <1>1, <2>1 DEF TreeType
  <2>6. FormShows(tree') = FormShows(tree)
        BY <2>5 DEF FormShows, Ticked
  <2> QED BY <2>1, <2>3, <2>4, <2>5, <2>6
          DEF HookInv, WebhookFormTypeOK, TreeType, HookType, Wanted, FormShows
<1> QED BY <1>2, <1>3, <1>4

LEMMA WebhookFormStep == HookInv /\ [WebhookFormNext]_webhookFormVars => HookInv'
<1> SUFFICES ASSUME HookInv, [WebhookFormNext]_webhookFormVars PROVE HookInv'
    OBVIOUS
<1>1. CASE DeleteWebhook
  <2>1. hook' \in HookType /\ tree' \in TreeType /\ webhookTold' = "nothing"
        BY <1>1, FilterKinds DEF DeleteWebhook, NoTree, HookType, TreeType
  <2> QED BY <2>1 DEF HookInv, WebhookFormTypeOK, TreeType, HookType
<1>2. CASE UNCHANGED webhookFormVars
      BY <1>2 DEF webhookFormVars, HookInv, WebhookFormTypeOK
<1> QED BY <1>1, <1>2, OpenWebhookInv, TreeInv, SubmitWebhookInv DEF WebhookFormNext

LEMMA HookInvDelivers == HookInv => TickedIsDelivered
BY DEF HookInv, TickedIsDelivered, FormShows

-----------------------------------------------------------------------------
(* SecretCards: on a card where one request for a secret excludes the next, *)
(* a secret reaches the page only while none is on display.                 *)

CardOps == {"idle", "load", "create", "edit", "change", "rotate", "delete"}
AnyCardRequest == [op : CardOps, item : Items \cup {None},
                   at : {"idle", "sent", "done", "failed", "reload", "read"},
                   secret : 0..SecretBound, found : SUBSET Items]
CardRequestType == {r \in AnyCardRequest : r.at = "sent" => r.item \in Items}

CardTypes ==
    /\ card \in Cards /\ items \subseteq Items /\ cardList \subseteq Items
    /\ issued \in 0..SecretBound /\ shown \in 0..SecretBound /\ owedSecrets \subseteq Secrets
    /\ busyRow \in Items \cup {None, "all"}
    /\ cardForm \in [open : BOOLEAN, edits : BOOLEAN, valid : BOOLEAN]

SecretTyped == CardTypes /\ requests \in [Slots -> CardRequestType]

\* The cards of panel tokens, ACME tokens, metrics and passwords.
OneSecretAtATime == Cards \subseteq {"tokens", "acme", "metrics", "password"}

UsesForm == card \in {"tokens", "acme"}

\* What a request is, on its card.
RequestOfCard(r) ==
    /\ r.op = "idle" => r.at = "idle"
    /\ r.op = "load" => r.at \in {"idle", "reload", "read"}
    /\ UsesForm => r.op # "rotate"
    /\ ~UsesForm => r.op \notin {"create", "edit"}
    /\ r.at = "done" /\ r.secret # 0 => MakesSecret(r.op)

\* A request that keeps others away: by the locked form, or by locked buttons.
Excludes(r) ==
    \/ /\ UsesForm /\ r.op \in {"create", "edit"} /\ r.at \in {"sent", "done", "failed"}
    \/ /\ ~UsesForm /\ r.op \notin {"idle", "load"}
       /\ r.at \in {"sent", "done", "failed"} \cup
                   (IF card = "metrics" THEN {"reload", "read"} ELSE {})

Making(r) == MakesSecret(r.op) /\ r.at \in {"sent", "done"}

CardInv ==
    /\ SecretTyped /\ card \in {"tokens", "acme", "metrics", "password"}
    /\ \A k \in Slots : RequestOfCard(requests[k])
    /\ \A k, m \in Slots : Excludes(requests[k]) /\ Excludes(requests[m]) => k = m
    /\ ~UsesForm => ~cardForm.open
    /\ \A k \in Slots : ~UsesForm /\ Excludes(requests[k]) => busyRow = "all"
    /\ \A k \in Slots : Making(requests[k]) => shown = 0
    /\ owedSecrets \subseteq {shown}

LEMMA CardRequests ==
    ASSUME SecretTyped
    PROVE  \A k \in Slots : requests[k] \in CardRequestType /\ requests[k] \in AnyCardRequest
BY DEF SecretTyped, CardRequestType

LEMMA SecretTypedOK == SecretTyped => SecretTypeOK
<1> SUFFICES ASSUME SecretTyped PROVE SecretTypeOK
    OBVIOUS
<1>1. requests \in [Slots -> AnyCardRequest]
      BY CardRequests DEF SecretTyped
<1> QED BY <1>1 DEF SecretTyped, CardTypes, SecretTypeOK, AnyCardRequest, CardOps

LEMMA CardSlot ==
    ASSUME SecretTyped, NEW k \in Slots, NEW r \in CardRequestType
    PROVE  /\ [requests EXCEPT ![k] = r] \in [Slots -> CardRequestType]
           /\ \A m \in Slots : [requests EXCEPT ![k] = r][m] = IF m = k THEN r ELSE requests[m]
BY DEF SecretTyped

LEMMA FreshRequests ==
    /\ NoRequest \in CardRequestType /\ FirstLoad \in CardRequestType
    /\ NoRequest.op = "idle" /\ NoRequest.at = "idle" /\ NoRequest.secret = 0
    /\ FirstLoad.op = "load" /\ FirstLoad.at = "reload" /\ FirstLoad.secret = 0
<1>1. 0 \in 0..SecretBound /\ {} \in SUBSET Items
      BY CardsAssumption
<1>2. /\ NoRequest \in AnyCardRequest
      /\ NoRequest.op = "idle" /\ NoRequest.at = "idle" /\ NoRequest.secret = 0
      BY <1>1 DEF NoRequest, AnyCardRequest, CardOps
<1>3. /\ FirstLoad \in AnyCardRequest
      /\ FirstLoad.op = "load" /\ FirstLoad.at = "reload" /\ FirstLoad.secret = 0
      BY <1>2 DEF FirstLoad, AnyCardRequest, CardOps
<1> QED BY <1>2, <1>3 DEF CardRequestType

LEMMA FreshRequest ==
    ASSUME NEW op \in CardOps, NEW i \in Items
    PROVE  LET asked == [NoRequest EXCEPT !.op = op, !.item = i, !.at = "sent"]
           IN  /\ asked \in CardRequestType
               /\ asked.op = op /\ asked.at = "sent" /\ asked.secret = 0
<1>1. NoRequest \in AnyCardRequest /\ NoRequest.secret = 0
      BY FreshRequests DEF CardRequestType
<1> DEFINE asked == [NoRequest EXCEPT !.op = op, !.item = i, !.at = "sent"]
<1>2. /\ asked \in AnyCardRequest
      /\ asked.op = op /\ asked.at = "sent" /\ asked.secret = 0 /\ asked.item = i
      BY <1>1 DEF AnyCardRequest
<1> HIDE DEF asked
<1>3. asked \in CardRequestType /\ asked.op = op /\ asked.at = "sent" /\ asked.secret = 0
      BY <1>2 DEF CardRequestType
<1> QED BY <1>3 DEF asked

(* The types, on every card.                                                *)

LEMMA SecretInitType == SecretInit => SecretTyped
<1> SUFFICES ASSUME SecretInit PROVE SecretTyped
    OBVIOUS
<1>1. requests \in [Slots -> CardRequestType]
      BY FreshRequests DEF SecretInit
<1>2. CardTypes
      BY CardsAssumption DEF SecretInit, CardTypes, NoCardForm
<1> QED BY <1>1, <1>2 DEF SecretTyped

LEMMA ServeCardMoves ==
    ASSUME SecretTyped, NEW k \in Slots, ServeCard(k)
    PROVE  /\ CardTypes'
           /\ \E r \in CardRequestType :
                /\ requests' = [requests EXCEPT ![k] = r]
                /\ r.op = requests[k].op /\ r.at \in {"done", "failed"}
                /\ r.at = "done" /\ r.secret # 0 => MakesSecret(r.op)
<1> DEFINE old == requests[k]
<1>1. /\ old \in CardRequestType /\ old.at = "sent" /\ CardTypes
      BY CardRequests DEF ServeCard, SecretTyped
<1>2. CASE old.op # "create" /\ card # "metrics" /\ old.item \notin items
  <2> DEFINE r == [old EXCEPT !.at = "failed"]
  <2>1. requests' = [requests EXCEPT ![k] = r] /\ CardTypes'
        BY <1>1, <1>2 DEF ServeCard, CardTypes, SecretTyped
  <2>2. r \in CardRequestType /\ r.op = old.op /\ r.at = "failed"
        BY <1>1 DEF CardRequestType, AnyCardRequest
  <2> QED BY <2>1, <2>2
<1>3. CASE ~(old.op # "create" /\ card # "metrics" /\ old.item \notin items)
  <2> DEFINE given == IF MakesSecret(old.op) THEN issued' ELSE 0
             r == [old EXCEPT !.at = "done", !.secret = given]
  <2>1. /\ items' = IF old.op = "delete" THEN items \ {old.item} ELSE items \cup {old.item}
        /\ issued' = IF MakesSecret(old.op) THEN issued + 1 ELSE issued
        /\ MakesSecret(old.op) => issued < SecretBound
        /\ UNCHANGED <<card, cardList, busyRow, cardForm, shown, owedSecrets>>
        BY <1>3 DEF ServeCard
  <2>2. issued' \in 0..SecretBound /\ given \in 0..SecretBound
        BY <1>1, <2>1, CardsAssumption DEF CardTypes
  <2>3. requests' = [requests EXCEPT ![k] = r]
        BY <1>3 DEF ServeCard, SecretTyped
  <2>4. r \in CardRequestType /\ r.op = old.op /\ r.at = "done" /\ r.secret = given
        BY <1>1, <2>2 DEF CardRequestType, AnyCardRequest
  <2>5. old.item \in Items
        BY <1>1 DEF CardRequestType
  <2> QED BY <1>1, <2>1, <2>2, <2>3, <2>4, <2>5 DEF CardTypes
<1> QED BY <1>2, <1>3

LEMMA ActMoves ==
    ASSUME SecretTyped, NEW k \in Slots, NEW i \in Items, NEW op \in RowOps, Act(k, i, op)
    PROVE  /\ CardTypes'
           /\ \E r \in CardRequestType :
                /\ requests' = [requests EXCEPT ![k] = r]
                /\ r.op = op /\ r.at = "sent" /\ r.secret = 0
<1> DEFINE r == [NoRequest EXCEPT !.op = op, !.item = i, !.at = "sent"]
<1>1. r \in CardRequestType /\ r.op = op /\ r.at = "sent" /\ r.secret = 0
  <2>1. op \in CardOps
        BY DEF RowOps, CardOps
  <2> QED BY <2>1, FreshRequest
<1>2. requests' = [requests EXCEPT ![k] = r]
      BY DEF Act, SendFrom
<1>3. CardTypes'
      BY DEF Act, SecretTyped, CardTypes, Locks
<1> HIDE DEF r
<1> QED BY <1>1, <1>2, <1>3

LEMMA SubmitCardFormMoves ==
    ASSUME SecretTyped, NEW k \in Slots, NEW i \in Items, SubmitCardForm(k, i)
    PROVE  /\ CardTypes'
           /\ \E r \in CardRequestType :
                /\ requests' = [requests EXCEPT ![k] = r]
                /\ r.op \in {"create", "edit"} /\ r.at = "sent" /\ r.secret = 0
<1> DEFINE op == IF cardForm.edits THEN "edit" ELSE "create"
           r == [NoRequest EXCEPT !.op = op, !.item = i, !.at = "sent"]
<1>1. op \in {"create", "edit"}
      OBVIOUS
<1>2. requests' = [requests EXCEPT ![k] = r]
      BY DEF SubmitCardForm, SendFrom
<1> HIDE DEF op
<1>3. r \in CardRequestType /\ r.op = op /\ r.at = "sent" /\ r.secret = 0
  <2>1. op \in CardOps
        BY <1>1 DEF CardOps
  <2> QED BY <2>1, FreshRequest
<1>4. CardTypes'
      BY DEF SubmitCardForm, SecretTyped, CardTypes
<1> HIDE DEF r
<1> QED BY <1>1, <1>2, <1>3, <1>4

LEMMA FailsMoves ==
    ASSUME SecretTyped, NEW k \in Slots, Fails(k)
    PROVE  /\ CardTypes'
           /\ \E r \in CardRequestType :
                /\ requests' = [requests EXCEPT ![k] = r]
                /\ r.op = requests[k].op /\ r.at = "failed" /\ r.secret = 0
<1> DEFINE r == [requests[k] EXCEPT !.at = "failed", !.secret = 0]
<1>1. requests[k] \in AnyCardRequest /\ 0 \in 0..SecretBound
      BY CardRequests, CardsAssumption
<1>2. r \in CardRequestType /\ r.op = requests[k].op /\ r.at = "failed" /\ r.secret = 0
      BY <1>1 DEF CardRequestType, AnyCardRequest
<1>3. requests' = [requests EXCEPT ![k] = r] /\ CardTypes'
      BY DEF Fails, SecretTyped, CardTypes
<1> HIDE DEF r
<1> QED BY <1>2, <1>3

LEMMA CardAnsweredMoves ==
    ASSUME SecretTyped, NEW k \in Slots, CardAnswered(k)
    PROVE  /\ CardTypes'
           /\ \E r \in CardRequestType :
                /\ requests' = [requests EXCEPT ![k] = r]
                /\ r.op = requests[k].op /\ r.at = "reload"
<1> DEFINE r == [requests[k] EXCEPT !.at = "reload"]
<1>1. requests[k] \in AnyCardRequest
      BY CardRequests
<1>2. r \in CardRequestType /\ r.op = requests[k].op /\ r.at = "reload"
      BY <1>1 DEF CardRequestType, AnyCardRequest
<1>3. requests' = [requests EXCEPT ![k] = r]
      BY DEF CardAnswered, SecretTyped
<1>4. CardTypes'
  <2>1. /\ requests[k].secret \in 0..SecretBound
        /\ requests[k].secret # 0 => requests[k].secret \in Secrets
        BY <1>1, CardsAssumption DEF AnyCardRequest, Secrets
  <2> QED BY <2>1 DEF CardAnswered, SecretTyped, CardTypes, NoCardForm
<1> HIDE DEF r
<1> QED BY <1>2, <1>3, <1>4

LEMMA CardRefusedMoves ==
    ASSUME SecretTyped, NEW k \in Slots, CardRefused(k)
    PROVE  /\ CardTypes'
           /\ \E r \in CardRequestType :
                /\ requests' = [requests EXCEPT ![k] = r]
                /\ \/ r.op = "idle" /\ r.at = "idle"
                   \/ r.op = requests[k].op /\ r.at = "reload" /\ card = "tokens"
<1>1. CardTypes'
      BY DEF CardRefused, SecretTyped, CardTypes
<1>2. CASE card = "tokens" /\ ~CardFormRequest(k)
  <2> DEFINE r == [requests[k] EXCEPT !.at = "reload"]
  <2>1. requests[k] \in AnyCardRequest
        BY CardRequests
  <2>2. r \in CardRequestType /\ r.op = requests[k].op /\ r.at = "reload"
        BY <2>1 DEF CardRequestType, AnyCardRequest
  <2>3. requests' = [requests EXCEPT ![k] = r]
        BY <1>2 DEF CardRefused, SecretTyped
  <2> HIDE DEF r
  <2> QED BY <1>1, <1>2, <2>2, <2>3
<1>3. CASE ~(card = "tokens" /\ ~CardFormRequest(k))
  <2>1. requests' = [requests EXCEPT ![k] = NoRequest]
        BY <1>3 DEF CardRefused, SecretTyped
  <2> QED BY <1>1, <2>1, FreshRequests
<1> QED BY <1>2, <1>3

LEMMA CardListReadMoves ==
    ASSUME SecretTyped, NEW k \in Slots, CardListRead(k)
    PROVE  /\ CardTypes'
           /\ \E r \in CardRequestType :
                /\ requests' = [requests EXCEPT ![k] = r]
                /\ r.op = requests[k].op /\ r.at = "read"
<1> DEFINE r == [requests[k] EXCEPT !.at = "read", !.found = items]
<1>1. requests[k] \in AnyCardRequest /\ items \subseteq Items
      BY CardRequests DEF SecretTyped, CardTypes
<1>2. r \in CardRequestType /\ r.op = requests[k].op /\ r.at = "read"
      BY <1>1 DEF CardRequestType, AnyCardRequest
<1>3. requests' = [requests EXCEPT ![k] = r] /\ CardTypes'
      BY DEF CardListRead, SecretTyped, CardTypes
<1> HIDE DEF r
<1> QED BY <1>2, <1>3

LEMMA CardListArrivesMoves ==
    ASSUME SecretTyped, NEW k \in Slots, NEW ok \in BOOLEAN, CardListArrives(k, ok)
    PROVE  CardTypes' /\ requests' = [requests EXCEPT ![k] = NoRequest]
<1>1. requests[k] \in AnyCardRequest
      BY CardRequests
<1>2. requests[k].secret \in 0..SecretBound /\ requests[k].found \subseteq Items
      BY <1>1 DEF AnyCardRequest
<1>3. cardList' \subseteq Items
      BY <1>2 DEF CardListArrives, SecretTyped, CardTypes
<1>4. shown' \in 0..SecretBound
      BY <1>2 DEF CardListArrives, SecretTyped, CardTypes
<1> QED BY <1>3, <1>4 DEF CardListArrives, SecretTyped, CardTypes

\* The requests stay.
CardRest ==
    \/ \E b \in BOOLEAN : OpenCardForm(b) \/ FillCardForm(b)
    \/ CloseCardForm \/ ConfirmSecret

LEMMA CardRestMoves ==
    ASSUME SecretTyped, CardRest
    PROVE  CardTypes' /\ UNCHANGED <<requests, card, busyRow>>
<1>1. CardTypes /\ 0 \in 0..SecretBound
      BY CardsAssumption DEF SecretTyped
<1>2. ASSUME NEW b \in BOOLEAN, OpenCardForm(b) \/ FillCardForm(b)
      PROVE  CardTypes' /\ UNCHANGED <<requests, card, busyRow>>
      BY <1>1, <1>2 DEF OpenCardForm, FillCardForm, CardTypes, NoCardForm
<1>3. CASE CloseCardForm
      BY <1>1, <1>3 DEF CloseCardForm, CardTypes, NoCardForm
<1>4. CASE ConfirmSecret
  <2>1. owedSecrets' \subseteq Secrets /\ shown' \in 0..SecretBound
        BY <1>1, <1>4 DEF ConfirmSecret, CardTypes
  <2> QED BY <1>1, <1>4, <2>1 DEF ConfirmSecret, CardTypes
<1> QED BY <1>2, <1>3, <1>4 DEF CardRest

LEMMA SecretCases ==
    ASSUME SecretNext
    PROVE  \/ CardRest
           \/ \E k \in Slots, i \in Items :
                SubmitCardForm(k, i) \/ \E op \in RowOps : Act(k, i, op)
           \/ \E k \in Slots : \/ RefreshCard(k) \/ ServeCard(k) \/ Fails(k) \/ CardAnswered(k)
                               \/ CardRefused(k) \/ CardListRead(k)
           \/ \E k \in Slots, ok \in BOOLEAN : CardListArrives(k, ok)
BY DEF SecretNext, CardRest

LEMMA SlotTyped ==
    ASSUME SecretTyped, CardTypes', NEW k \in Slots, NEW r \in CardRequestType,
           requests' = [requests EXCEPT ![k] = r]
    PROVE  SecretTyped'
BY CardSlot DEF SecretTyped

LEMMA SecretStepType == SecretTyped /\ [SecretNext]_secretVars => SecretTyped'
<1> SUFFICES ASSUME SecretTyped, [SecretNext]_secretVars PROVE SecretTyped'
    OBVIOUS
<1>1. CASE UNCHANGED secretVars
      BY <1>1 DEF secretVars, SecretTyped, CardTypes
<1>2. CASE CardRest
      BY <1>2, CardRestMoves DEF SecretTyped
<1>3. ASSUME NEW k \in Slots, NEW i \in Items, SubmitCardForm(k, i) PROVE SecretTyped'
      BY <1>3, SubmitCardFormMoves, SlotTyped
<1>4. ASSUME NEW k \in Slots, NEW i \in Items, NEW op \in RowOps, Act(k, i, op)
      PROVE  SecretTyped'
      BY <1>4, ActMoves, SlotTyped
<1>5. ASSUME NEW k \in Slots, RefreshCard(k) PROVE SecretTyped'
  <2>1. CardTypes' /\ requests' = [requests EXCEPT ![k] = FirstLoad]
        BY <1>5 DEF RefreshCard, SecretTyped, CardTypes
  <2> QED BY <2>1, FreshRequests, SlotTyped
<1>6. ASSUME NEW k \in Slots, ServeCard(k) PROVE SecretTyped'
      BY <1>6, ServeCardMoves, SlotTyped
<1>7. ASSUME NEW k \in Slots, Fails(k) PROVE SecretTyped'
      BY <1>7, FailsMoves, SlotTyped
<1>8. ASSUME NEW k \in Slots, CardAnswered(k) PROVE SecretTyped'
      BY <1>8, CardAnsweredMoves, SlotTyped
<1>9. ASSUME NEW k \in Slots, CardRefused(k) PROVE SecretTyped'
      BY <1>9, CardRefusedMoves, SlotTyped
<1>10. ASSUME NEW k \in Slots, CardListRead(k) PROVE SecretTyped'
       BY <1>10, CardListReadMoves, SlotTyped
<1>11. ASSUME NEW k \in Slots, NEW ok \in BOOLEAN, CardListArrives(k, ok) PROVE SecretTyped'
       BY <1>11, CardListArrivesMoves, FreshRequests, SlotTyped
<1> QED BY <1>1, <1>2, <1>3, <1>4, <1>5, <1>6, <1>7, <1>8, <1>9, <1>10, <1>11, SecretCases

(* A request that makes a secret excludes the others, and it was sent while *)
(* none was on display.                                                     *)

LEMMA MakingExcludes ==
    ASSUME CardInv, NEW k \in Slots, Making(requests[k])
    PROVE  /\ Excludes(requests[k])
           /\ \A m \in Slots : Making(requests[m]) => m = k
           /\ owedSecrets = {}
<1>1. \A m \in Slots : Making(requests[m]) => Excludes(requests[m])
      BY DEF CardInv, RequestOfCard, Making, MakesSecret, Excludes, UsesForm
<1>2. shown = 0 /\ owedSecrets \subseteq {shown} /\ owedSecrets \subseteq Secrets
      BY DEF CardInv, SecretTyped, CardTypes
<1>3. 0 \notin Secrets
      BY CardsAssumption DEF Secrets
<1> QED BY <1>1, <1>2, <1>3 DEF CardInv

LEMMA SlotInv ==
    ASSUME CardInv, SecretTyped', card' = card, NEW k \in Slots, NEW r \in CardRequestType,
           requests' = [requests EXCEPT ![k] = r], RequestOfCard(r),
           Excludes(r) => Excludes(requests[k]) \/ \A m \in Slots : ~Excludes(requests[m]),
           ~UsesForm => ~cardForm'.open,
           ~UsesForm /\ (Excludes(r) \/ \E m \in Slots \ {k} : Excludes(requests[m]))
             => busyRow' = "all",
           Making(r) \/ (\E m \in Slots \ {k} : Making(requests[m])) => shown' = 0,
           owedSecrets' \subseteq {shown'}
    PROVE  CardInv'
<1>1. \A m \in Slots : requests'[m] = IF m = k THEN r ELSE requests[m]
      BY CardSlot DEF CardInv
<1>2. \A q : /\ Excludes(q)' <=> Excludes(q)
             /\ RequestOfCard(q)' <=> RequestOfCard(q)
             /\ Making(q)' <=> Making(q)
      BY DEF Excludes, RequestOfCard, Making, MakesSecret, UsesForm
<1>3. UsesForm' <=> UsesForm
      BY DEF UsesForm
<1>4. \A m \in Slots : RequestOfCard(requests[m])'
      BY <1>1 DEF CardInv, RequestOfCard, UsesForm, MakesSecret
<1>5. \A m \in Slots : Excludes(requests[m])' <=> Excludes(IF m = k THEN r ELSE requests[m])
      BY <1>1 DEF Excludes, UsesForm
<1>6. \A m \in Slots : Making(requests[m])' <=> Making(IF m = k THEN r ELSE requests[m])
      BY <1>1 DEF Making, MakesSecret
<1>7. \A m, n \in Slots : Excludes(requests[m])' /\ Excludes(requests[n])' => m = n
      BY <1>5 DEF CardInv
<1>8. \A m \in Slots : ~UsesForm' /\ Excludes(requests[m])' => busyRow' = "all"
      BY <1>3, <1>5
<1>9. \A m \in Slots : Making(requests[m])' => shown' = 0
      BY <1>6
<1> QED BY <1>3, <1>4, <1>7, <1>8, <1>9 DEF CardInv

(* A request goes on: it excludes and makes no more than it did.            *)

LEMMA GoesOn ==
    ASSUME CardInv, SecretTyped', UNCHANGED <<card, cardForm, shown, owedSecrets>>,
           NEW k \in Slots, NEW r \in CardRequestType,
           requests' = [requests EXCEPT ![k] = r], RequestOfCard(r),
           Excludes(r) => Excludes(requests[k]), Making(r) => Making(requests[k]),
           \/ busyRow' = busyRow
           \/ UsesForm
           \/ Excludes(requests[k]) /\ ~Excludes(r)
    PROVE  CardInv'
<1>1. ~UsesForm /\ (Excludes(r) \/ \E m \in Slots \ {k} : Excludes(requests[m]))
        => busyRow' = "all"
      BY DEF CardInv
<1>2. Making(r) \/ (\E m \in Slots \ {k} : Making(requests[m])) => shown' = 0
      BY DEF CardInv
<1>3. ~UsesForm => ~cardForm'.open
      BY DEF CardInv
<1>4. owedSecrets' \subseteq {shown'}
      BY DEF CardInv
<1> QED BY <1>1, <1>2, <1>3, <1>4, SlotInv

\* A request that was sent is the first of its kind.
LEMMA SentInv ==
    ASSUME CardInv, SecretTyped', UNCHANGED <<card, cardForm, shown, owedSecrets>>, shown = 0,
           NEW k \in Slots, NEW r \in CardRequestType,
           requests' = [requests EXCEPT ![k] = r], RequestOfCard(r),
           Excludes(r) => \A m \in Slots : ~Excludes(requests[m]),
           ~UsesForm => busyRow' = "all"
    PROVE  CardInv'
<1>1. ~UsesForm => ~cardForm'.open
      BY DEF CardInv
<1>2. owedSecrets' \subseteq {shown'}
      BY DEF CardInv
<1> QED BY <1>1, <1>2, SlotInv

LEMMA CardAnsweredInv ==
    ASSUME CardInv, SecretTyped', NEW k \in Slots, CardAnswered(k)
    PROVE  CardInv'
<1> DEFINE old == requests[k]
<1>1. PICK r \in CardRequestType : /\ requests' = [requests EXCEPT ![k] = r]
                                   /\ r.op = old.op /\ r.at = "reload"
      BY CardAnsweredMoves DEF CardInv
<1>2. RequestOfCard(old) /\ old.at = "done"
      BY DEF CardInv, CardAnswered
<1>3. RequestOfCard(r) /\ ~Making(r)
      BY <1>1, <1>2 DEF RequestOfCard, Making
<1>4. Excludes(r) => Excludes(old)
      BY <1>1, <1>2 DEF Excludes
<1>5. card' = card /\ card \in {"tokens", "acme", "metrics", "password"}
      BY DEF CardAnswered, CardInv
<1>6. ~UsesForm => ~cardForm'.open
      BY <1>2 DEF CardAnswered, CardInv, RequestOfCard, CardFormRequest
<1>7. ASSUME ~UsesForm, Excludes(r) \/ \E m \in Slots \ {k} : Excludes(requests[m])
      PROVE  busyRow' = "all"
  <2>1. Excludes(old)
        BY <1>2, <1>7 DEF Excludes, RequestOfCard
  <2>2. Excludes(r)
        BY <1>7, <2>1 DEF CardInv
  <2>3. card = "metrics"
        BY <1>1, <1>7, <2>2 DEF Excludes
  <2>4. busyRow = "all"
        BY <1>7, <2>1 DEF CardInv
  <2> QED BY <2>3, <2>4 DEF CardAnswered, UnlocksFirst
<1>8. CASE old.secret # 0
  <2>1. Making(old)
        BY <1>2, <1>8 DEF RequestOfCard, Making
  <2>2. owedSecrets = {} /\ \A m \in Slots : Making(requests[m]) => m = k
        BY <2>1, MakingExcludes
  <2>3. shown' = old.secret /\ owedSecrets' = {old.secret}
        BY <1>5, <1>8, <2>2 DEF CardAnswered, ShownAtOnce
  <2>4. Making(r) \/ (\E m \in Slots \ {k} : Making(requests[m])) => shown' = 0
        BY <1>3, <2>2
  <2> QED BY <1>1, <1>3, <1>4, <1>5, <1>6, <1>7, <2>3, <2>4, SlotInv
<1>9. CASE old.secret = 0
  <2>1. shown' = shown /\ owedSecrets' = owedSecrets
        BY <1>9 DEF CardAnswered, ShownAtOnce
  <2>2. Making(r) \/ (\E m \in Slots \ {k} : Making(requests[m])) => shown' = 0
        BY <1>3, <2>1 DEF CardInv
  <2>3. owedSecrets' \subseteq {shown'}
        BY <2>1 DEF CardInv
  <2> QED BY <1>1, <1>3, <1>4, <1>5, <1>6, <1>7, <2>2, <2>3, SlotInv
<1> QED BY <1>8, <1>9

LEMMA CardRefusedInv ==
    ASSUME CardInv, SecretTyped', NEW k \in Slots, CardRefused(k)
    PROVE  CardInv'
<1> DEFINE old == requests[k]
<1>1. PICK r \in CardRequestType :
        /\ requests' = [requests EXCEPT ![k] = r]
        /\ \/ r.op = "idle" /\ r.at = "idle"
           \/ r.op = old.op /\ r.at = "reload" /\ card = "tokens"
      BY CardRefusedMoves DEF CardInv
<1>2. RequestOfCard(old) /\ old.at = "failed"
      BY DEF CardInv, CardRefused
<1>3. RequestOfCard(r) /\ ~Making(r)
      BY <1>1, <1>2 DEF RequestOfCard, Making
<1>4. ~Excludes(r)
      BY <1>1 DEF Excludes, UsesForm
<1>5. UsesForm \/ Excludes(old)
      BY <1>2 DEF Excludes, RequestOfCard
<1>6. UNCHANGED <<card, cardForm, shown, owedSecrets>>
      BY DEF CardRefused
<1> QED BY <1>1, <1>3, <1>4, <1>5, <1>6, GoesOn

LEMMA CardListArrivesInv ==
    ASSUME CardInv, SecretTyped', NEW k \in Slots, NEW ok \in BOOLEAN, CardListArrives(k, ok)
    PROVE  CardInv'
<1> DEFINE old == requests[k]
<1>1. RequestOfCard(old) /\ old.at = "read"
      BY DEF CardInv, CardListArrives
<1>2. requests' = [requests EXCEPT ![k] = NoRequest]
      BY CardListArrivesMoves DEF CardInv
<1>3. RequestOfCard(NoRequest) /\ ~Making(NoRequest) /\ ~Excludes(NoRequest)
      BY FreshRequests DEF RequestOfCard, Making, Excludes
<1>4. UNCHANGED <<card, cardForm, shown, owedSecrets>>
      BY DEF CardListArrives, ShownAtOnce, CardInv
<1>5. busyRow' = busyRow \/ UsesForm \/ Excludes(old)
  <2> SUFFICES ASSUME busyRow' # busyRow, ~UsesForm PROVE Excludes(old)
      OBVIOUS
  <2>1. ~CardFormRequest(k) /\ old.op # "load" /\ ~UnlocksFirst
        BY DEF CardListArrives
  <2>2. card = "metrics" /\ old.op # "idle"
        BY <1>1, <2>1 DEF CardInv, UsesForm, UnlocksFirst, RequestOfCard
  <2> QED BY <1>1, <2>1, <2>2 DEF Excludes
<1> QED BY <1>2, <1>3, <1>4, <1>5, FreshRequests, GoesOn

LEMMA RestInv ==
    ASSUME CardInv, CardRest
    PROVE  CardInv'
<1>1. UNCHANGED <<requests, card, busyRow>> /\ SecretTyped'
      BY CardRestMoves DEF CardInv, SecretTyped
<1>2. ~UsesForm => ~cardForm'.open
  <2>1. ASSUME NEW b \in BOOLEAN, OpenCardForm(b) \/ FillCardForm(b), ~UsesForm
        PROVE  ~cardForm'.open
        BY <2>1 DEF OpenCardForm, FillCardForm, HasCardForm, UsesForm, CardInv
  <2>2. CASE CloseCardForm \/ ConfirmSecret
        BY <2>2 DEF CloseCardForm, ConfirmSecret, NoCardForm, CardInv
  <2> QED BY <2>1, <2>2 DEF CardRest
<1>3. shown' = 0 \/ shown' = shown
      BY DEF CardRest, OpenCardForm, FillCardForm, CloseCardForm, ConfirmSecret
<1>4. owedSecrets' \subseteq {shown'}
      BY DEF CardRest, OpenCardForm, FillCardForm, CloseCardForm, ConfirmSecret, CardInv
<1> QED BY <1>1, <1>2, <1>3, <1>4
        DEF CardInv, RequestOfCard, Excludes, Making, MakesSecret, UsesForm

LEMMA SecretInitCards == ASSUME OneSecretAtATime PROVE SecretInit => CardInv
<1> SUFFICES ASSUME SecretInit PROVE CardInv
    OBVIOUS
<1>1. SecretTyped /\ card \in {"tokens", "acme", "metrics", "password"}
      BY SecretInitType DEF SecretInit, OneSecretAtATime
<1>2. \A k \in Slots : requests[k] \in {FirstLoad, NoRequest}
      BY DEF SecretInit
<1>3. \A k \in Slots : /\ RequestOfCard(requests[k]) /\ ~Making(requests[k])
                       /\ ~Excludes(requests[k])
      BY <1>2, FreshRequests DEF RequestOfCard, Making, MakesSecret, Excludes
<1> QED BY <1>1, <1>3 DEF SecretInit, CardInv, NoCardForm

LEMMA SecretStepCards == CardInv /\ [SecretNext]_secretVars => CardInv'
<1> SUFFICES ASSUME CardInv, [SecretNext]_secretVars PROVE CardInv'
    OBVIOUS
<1>1. CASE UNCHANGED secretVars
      BY <1>1 DEF secretVars, CardInv, SecretTyped, CardTypes, RequestOfCard, Excludes, Making,
                  MakesSecret, UsesForm
<1>2. CASE CardRest
      BY <1>2, RestInv
<1> SUFFICES ASSUME SecretNext PROVE CardInv'
    BY <1>1
<1>t. SecretTyped /\ SecretTyped'
      BY SecretStepType DEF CardInv
<1>3. ASSUME NEW k \in Slots, NEW i \in Items, SubmitCardForm(k, i) PROVE CardInv'
  <2>1. PICK r \in CardRequestType :
          /\ requests' = [requests EXCEPT ![k] = r]
          /\ r.op \in {"create", "edit"} /\ r.at = "sent" /\ r.secret = 0
        BY <1>t, <1>3, SubmitCardFormMoves
  <2>2. /\ cardForm.open /\ ~Sending /\ shown = 0
        /\ UNCHANGED <<card, cardForm, shown, owedSecrets>>
        BY <1>3 DEF SubmitCardForm
  <2>3. UsesForm
        BY <2>2 DEF CardInv
  <2>4. \A m \in Slots : ~Excludes(requests[m])
        BY <2>2, <2>3 DEF Sending, Excludes, CardFormRequest
  <2>5. RequestOfCard(r)
        BY <2>1, <2>3 DEF RequestOfCard
  <2> QED BY <1>t, <2>1, <2>2, <2>3, <2>4, <2>5, SentInv
<1>4. ASSUME NEW k \in Slots, NEW i \in Items, NEW op \in RowOps, Act(k, i, op)
      PROVE  CardInv'
  <2>1. PICK r \in CardRequestType :
          /\ requests' = [requests EXCEPT ![k] = r]
          /\ r.op = op /\ r.at = "sent" /\ r.secret = 0
        BY <1>t, <1>4, ActMoves
  <2>2. /\ shown = 0 /\ <<i, op>> \in Offers /\ busyRow' = Locks(i)
        /\ UNCHANGED <<card, cardForm, shown, owedSecrets>>
        BY <1>4 DEF Act, Covered
  <2>3. CASE UsesForm
    <3>1. op \in {"change", "delete"}
          BY <2>2, <2>3 DEF UsesForm, Offers, TokensOffers, AcmeOffers
    <3>2. RequestOfCard(r) /\ ~Excludes(r)
          BY <2>1, <2>3, <3>1 DEF RequestOfCard, Excludes
    <3> QED BY <1>t, <2>1, <2>2, <2>3, <3>2, SentInv
  <2>4. CASE ~UsesForm
    <3>1. card \in {"metrics", "password"}
          BY <2>4 DEF CardInv, UsesForm
    <3>2. busyRow = None /\ busyRow' = "all"
          BY <2>2, <3>1 DEF Offers, MetricsOffers, PasswordOffers, Locks
    <3>3. \A m \in Slots : ~Excludes(requests[m])
          BY <2>4, <3>2 DEF CardInv, None
    <3>4. RequestOfCard(r)
          BY <2>1, <2>4 DEF RequestOfCard, RowOps
    <3> QED BY <1>t, <2>1, <2>2, <3>2, <3>3, <3>4, SentInv
  <2> QED BY <2>3, <2>4
<1>5. ASSUME NEW k \in Slots, RefreshCard(k) PROVE CardInv'
  <2>1. /\ requests' = [requests EXCEPT ![k] = FirstLoad] /\ busyRow' = busyRow
        /\ UNCHANGED <<card, cardForm, shown, owedSecrets>>
        BY <1>5 DEF RefreshCard
  <2>2. RequestOfCard(FirstLoad) /\ ~Excludes(FirstLoad) /\ ~Making(FirstLoad)
        BY FreshRequests DEF RequestOfCard, Excludes, Making
  <2> QED BY <1>t, <2>1, <2>2, FreshRequests, GoesOn
<1>6. ASSUME NEW k \in Slots, ServeCard(k) PROVE CardInv'
  <2>1. PICK r \in CardRequestType :
          /\ requests' = [requests EXCEPT ![k] = r]
          /\ r.op = requests[k].op /\ r.at \in {"done", "failed"}
          /\ r.at = "done" /\ r.secret # 0 => MakesSecret(r.op)
        BY <1>t, <1>6, ServeCardMoves
  <2>2. /\ requests[k].at = "sent" /\ RequestOfCard(requests[k]) /\ busyRow' = busyRow
        /\ UNCHANGED <<card, cardForm, shown, owedSecrets>>
        BY <1>6 DEF ServeCard, CardInv
  <2>3. RequestOfCard(r)
        BY <2>1, <2>2 DEF RequestOfCard
  <2>4. (Excludes(r) => Excludes(requests[k])) /\ (Making(r) => Making(requests[k]))
        BY <2>1, <2>2 DEF Excludes, Making
  <2> QED BY <1>t, <2>1, <2>2, <2>3, <2>4, GoesOn
<1>7. ASSUME NEW k \in Slots, Fails(k) PROVE CardInv'
  <2>1. PICK r \in CardRequestType :
          /\ requests' = [requests EXCEPT ![k] = r]
          /\ r.op = requests[k].op /\ r.at = "failed" /\ r.secret = 0
        BY <1>t, <1>7, FailsMoves
  <2>2. /\ requests[k].at \in {"sent", "done"} /\ RequestOfCard(requests[k])
        /\ busyRow' = busyRow /\ UNCHANGED <<card, cardForm, shown, owedSecrets>>
        BY <1>7 DEF Fails, CardInv
  <2>3. RequestOfCard(r) /\ ~Making(r)
        BY <2>1, <2>2 DEF RequestOfCard, Making
  <2>4. Excludes(r) => Excludes(requests[k])
        BY <2>1, <2>2 DEF Excludes
  <2> QED BY <1>t, <2>1, <2>2, <2>3, <2>4, GoesOn
<1>8. ASSUME NEW k \in Slots, CardListRead(k) PROVE CardInv'
  <2>1. PICK r \in CardRequestType :
          /\ requests' = [requests EXCEPT ![k] = r]
          /\ r.op = requests[k].op /\ r.at = "read"
        BY <1>t, <1>8, CardListReadMoves
  <2>2. /\ requests[k].at = "reload" /\ RequestOfCard(requests[k])
        /\ busyRow' = busyRow /\ UNCHANGED <<card, cardForm, shown, owedSecrets>>
        BY <1>8 DEF CardListRead, CardInv
  <2>3. RequestOfCard(r) /\ ~Making(r)
        BY <2>1, <2>2 DEF RequestOfCard, Making
  <2>4. Excludes(r) => Excludes(requests[k])
        BY <2>1, <2>2 DEF Excludes
  <2> QED BY <1>t, <2>1, <2>2, <2>3, <2>4, GoesOn
<1>9. ASSUME NEW k \in Slots, CardAnswered(k) PROVE CardInv'
      BY <1>t, <1>9, CardAnsweredInv
<1>10. ASSUME NEW k \in Slots, CardRefused(k) PROVE CardInv'
       BY <1>t, <1>10, CardRefusedInv
<1>11. ASSUME NEW k \in Slots, NEW ok \in BOOLEAN, CardListArrives(k, ok) PROVE CardInv'
       BY <1>t, <1>11, CardListArrivesInv
<1> QED BY <1>2, <1>3, <1>4, <1>5, <1>6, <1>7, <1>8, <1>9, <1>10, <1>11, SecretCases

LEMMA CardInvShows == CardInv => SecretShownUntilConfirmed
BY DEF CardInv, SecretShownUntilConfirmed

-----------------------------------------------------------------------------
(* Dnssec: a request names a key or makes one, and the button that runs     *)
(* requests has one left until it is free again.                            *)

\* Keys that are active or published are there.
KeyRing == {z \in KeyStates : z.active \subseteq z.there /\ z.published \subseteq z.there}
KeyRequests == [op : Ops, key : 0..KeyBound]
JobType == [from : {"none", "assistant", "table", "dialog"}, todo : Seq(KeyRequests),
            at : {"idle", "sent", "checked", "asks", "answered", "failed", "declined", "reload"},
            force : BOOLEAN, read : KeyRing, wrote : BOOLEAN]

ServerTyped ==
    /\ keys \in KeyRing /\ made \in 0..KeyBound
    /\ registrar \subseteq KeyIds /\ served \subseteq keys.published
StatusTyped ==
    /\ status \in KeyRing /\ known \in {"yes", "failed"}
    /\ reload \in [stage : {"none", "asked", "read"}, keys : KeyRing]
AssistantTyped ==
    /\ ticks \in [key : {ticks.key}, set : SUBSET Ticks]
    /\ results \in [key : {results.key}, ok : SUBSET Checks, failed : SUBSET Checks,
                    busy : Checks \cup {"none"}]
    /\ results.ok \cap results.failed = {} /\ \A p \in probes : p.name \in Checks
JobTyped == job \in JobType /\ (job.at # "idle" => job.todo # <<>>)
DialogTyped ==
    /\ window \in {"none", "ds", "enable", "disable", "addKey", "nsec", "rollover"}
    /\ capability \in BOOLEAN /\ forced \in BOOLEAN /\ byHand \in 0..HandBound

DnssecTyped == ServerTyped /\ StatusTyped /\ AssistantTyped /\ JobTyped /\ DialogTyped

LEMMA DnssecTypedOK == DnssecTyped => DnssecTypeOK
BY DEF DnssecTyped, DnssecTypeOK, ServerTyped, StatusTyped, AssistantTyped, JobTyped, JobType,
       DialogTyped, KeyRing

LEMMA NoKeysType == NoKeys \in KeyRing /\ NoKeys.there = {} /\ NoKeys.published = {}
BY DEF NoKeys, KeyRing, KeyStates

LEMMA FreshBrowser ==
    /\ NoReload \in [stage : {"none", "asked", "read"}, keys : KeyRing]
    /\ NoTicks \in [key : {NoTicks.key}, set : SUBSET Ticks]
    /\ NoResults \in [key : {NoResults.key}, ok : SUBSET Checks, failed : SUBSET Checks,
                      busy : Checks \cup {"none"}]
    /\ NoResults.ok \cap NoResults.failed = {}
    /\ NoJob \in JobType /\ NoJob.at = "idle"
<1>1. <<>> \in Seq(KeyRequests)
      OBVIOUS
<1> QED BY <1>1, NoKeysType DEF NoReload, NoTicks, NoResults, NoJob, JobType

LEMMA DnssecInitType == DnssecInit => DnssecTyped
<1> SUFFICES ASSUME DnssecInit PROVE DnssecTyped
    OBVIOUS
<1> DEFINE one == [there |-> {1}, active |-> {1}, published |-> {1}]
<1>1. PICK z \in {NoKeys, one}, on \in BOOLEAN :
        /\ keys = z /\ registrar = z.there /\ served = z.there /\ status = z
        /\ made = Cardinality(z.there)
        /\ known = "yes" /\ reload = NoReload /\ window = "none"
        /\ ticks = NoTicks /\ probes = {} /\ results = NoResults
        /\ job = NoJob /\ capability = on /\ forced = FALSE /\ byHand = 0
      BY DEF DnssecInit
<1>2. 1 \in KeyIds /\ 0 \in 0..KeyBound /\ 1 \in 0..KeyBound /\ 0 \in 0..HandBound
      BY DnssecAssumption DEF KeyIds
<1>3. /\ one \in KeyRing /\ one.there = {1} /\ one.published = {1}
      BY <1>2 DEF KeyRing, KeyStates
<1>4. Cardinality({1}) = 1 /\ Cardinality({}) = 0
      BY FS_Singleton, FS_EmptySet
<1> HIDE DEF one
<1>5. ServerTyped
      BY <1>1, <1>2, <1>3, <1>4, NoKeysType DEF ServerTyped
<1>6. StatusTyped /\ AssistantTyped /\ JobTyped /\ DialogTyped
      BY <1>1, <1>2, <1>3, NoKeysType, FreshBrowser
         DEF StatusTyped, AssistantTyped, JobTyped, DialogTyped
<1> QED BY <1>5, <1>6 DEF DnssecTyped

(* What a request makes of keys.                                            *)

LEMMA AfterType ==
    ASSUME NEW z \in KeyRing, NEW req \in KeyRequests, NEW id,
           req.op \in OneKeyOps => req.key \in z.there,
           req.op \in {"create", "enable"} => id \in KeyIds
    PROVE  After(z, req, id) \in KeyRing
<1>1. req.op \in OneKeyOps => req.key \in KeyIds
      BY DEF KeyRing, KeyStates
<1>2. CASE req.op \in {"create", "enable"}
      BY <1>2 DEF After, KeyRing, KeyStates
<1>3. CASE req.op \in {"activate", "publish"}
      BY <1>1, <1>3 DEF After, KeyRing, KeyStates, OneKeyOps
<1>4. CASE req.op \in {"deactivate", "unpublish"}
      BY <1>4 DEF After, KeyRing, KeyStates
<1>5. CASE req.op \in {"delete", "disable", "nsec"}
      BY <1>5 DEF After, Without, KeyRing, KeyStates
<1> QED BY <1>2, <1>3, <1>4, <1>5 DEF KeyRequests, Ops

LEMMA WithoutType ==
    ASSUME NEW z \in KeyRing, NEW gone
    PROVE  Without(z, gone) \in KeyRing
BY DEF Without, KeyRing, KeyStates

LEMMA WrittenType ==
    ASSUME keys \in KeyRing, NEW read \in KeyRing, NEW req \in KeyRequests,
           ~Impossible(keys, req) \/ req.op = "enable",
           made \in 0..KeyBound, req.op \in {"enable", "create"} => made < KeyBound
    PROVE  Written(read, req) \in KeyRing
<1>1. req.op \in OneKeyOps => req.key \in keys.there /\ req.key \in KeyIds
      BY DEF Impossible, OneKeyOps, KeyRing, KeyStates
<1>2. req.op \in {"create", "enable"} => made + 1 \in KeyIds
      BY DnssecAssumption DEF KeyIds
<1>3. CASE req.op = "disable"
      BY <1>3, WithoutType DEF Written
<1>4. CASE req.op \in {"publish", "unpublish"}
  <2> DEFINE fresh == After(keys, req, 0)
  <2>1. req.op \notin {"create", "enable"}
        BY <1>4
  <2>2. fresh \in KeyRing
        BY <1>1, <2>1, AfterType
  <2> HIDE DEF fresh
  <2>3. Written(read, req) = [fresh EXCEPT !.active = IF req.key \in read.active
                                                     THEN fresh.active \cup {req.key}
                                                     ELSE fresh.active \ {req.key}]
        BY <1>4, <2>2 DEF Written, fresh, KeyRing, KeyStates
  <2>4. req.key \in KeyIds /\ req.key \in keys.there
        BY <1>1, <1>4 DEF OneKeyOps
  <2>5. fresh.there = keys.there
        BY <1>4 DEF fresh, After, KeyRing, KeyStates
  <2> QED BY <2>2, <2>3, <2>4, <2>5 DEF KeyRing, KeyStates
<1>5. CASE req.op \notin {"disable", "publish", "unpublish"}
  <2>1. Written(read, req) = After(keys, req, made + 1)
        BY <1>5 DEF Written
  <2> QED BY <1>1, <1>2, <2>1, AfterType
<1> QED BY <1>3, <1>4, <1>5

LEMMA SetKeysType ==
    ASSUME ServerTyped, NEW z \in KeyRing, NEW req, SetKeys(z, req),
           req.op \in {"create", "enable"} => made < KeyBound
    PROVE  ServerTyped'
<1>1. made' \in 0..KeyBound
      BY DnssecAssumption DEF SetKeys, ServerTyped
<1> QED BY <1>1 DEF SetKeys, ServerTyped

\* The request that is carried out.
LEMMA FirstRequest ==
    ASSUME JobTyped, job.at # "idle"
    PROVE  /\ Head(job.todo) \in KeyRequests
           /\ Tail(job.todo) \in Seq(KeyRequests)
           /\ Len(job.todo) > 1 => Tail(job.todo) # <<>>
<1>1. job.todo \in Seq(KeyRequests) /\ job.todo # <<>>
      BY DEF JobTyped, JobType
<1>2. /\ Head(job.todo) \in KeyRequests /\ Tail(job.todo) \in Seq(KeyRequests)
      /\ Len(Tail(job.todo)) = Len(job.todo) - 1
      BY <1>1, HeadTailProperties
<1>3. Len(<<>>) = 0
      OBVIOUS
<1>4. Len(job.todo) > 1 => Tail(job.todo) # <<>>
  <2>1. Len(job.todo) \in Nat
        BY <1>1, LenProperties
  <2>2. ASSUME NEW s, Len(s) = Len(job.todo) - 1, Len(job.todo) > 1 PROVE s # <<>>
        BY <1>3, <2>1, <2>2
  <2> QED BY <1>2, <2>2
<1> QED BY <1>2, <1>4

(* Where a rollover stands: one key, or two of which the lower is the older.*)

LEMMA KeyIdsAreFinite == IsFiniteSet(KeyIds) /\ KeyIds \subseteq Nat
BY FS_Interval, DnssecAssumption DEF KeyIds

LEMMA CardinalityOfKeys ==
    ASSUME NEW s \in SUBSET KeyIds
    PROVE  /\ IsFiniteSet(s) /\ Cardinality(s) \in Nat
           /\ \A x : s = {x} => Cardinality(s) = 1
           /\ \A x, y : s = {x, y} /\ x # y => Cardinality(s) = 2
<1>1. IsFiniteSet(s) /\ Cardinality(s) \in Nat
      BY KeyIdsAreFinite, FS_Subset, FS_CardinalityType
<1>2. ASSUME NEW x, s = {x} PROVE Cardinality(s) = 1
      BY <1>2, FS_Singleton
<1>3. ASSUME NEW x, NEW y, s = {x, y}, x # y PROVE Cardinality(s) = 2
  <2>1. IsFiniteSet({x}) /\ Cardinality({x}) = 1 /\ y \notin {x} /\ s = {x} \cup {y}
        BY <1>3, FS_Singleton
  <2> QED BY <2>1, FS_AddElement
<1> QED BY <1>1, <1>2, <1>3

LEMMA TwoKeys ==
    ASSUME NEW s \in SUBSET KeyIds, s # {}, ~(Cardinality(s) > 2)
    PROVE  \/ \E x \in s : s = {x}
           \/ \E x, y \in s : x < y /\ s = {x, y}
<1>1. PICK x \in s : TRUE
      OBVIOUS
<1>2. CASE s = {x}
      BY <1>2
<1>3. CASE s # {x}
  <2>1. PICK y \in s : y # x
        BY <1>1, <1>3
  <2>2. s = {x, y}
    <3> SUFFICES ASSUME NEW z \in s, z \notin {x, y} PROVE FALSE
        BY <1>1, <2>1
    <3>1. {x, y} \in SUBSET KeyIds /\ {x, y, z} \in SUBSET KeyIds
          BY <1>1, <2>1
    <3>2. IsFiniteSet({x, y}) /\ Cardinality({x, y}) = 2
          BY <2>1, <3>1, CardinalityOfKeys
    <3>3. {x, y, z} = {x, y} \cup {z}
          OBVIOUS
    <3>4. Cardinality({x, y, z}) = 3
          BY <3>2, <3>3, FS_AddElement
    <3>5. IsFiniteSet(s) /\ {x, y, z} \subseteq s
          BY <1>1, <2>1, CardinalityOfKeys
    <3>6. Cardinality({x, y, z}) <= Cardinality(s)
          BY <3>5, FS_Subset
    <3> QED BY <3>4, <3>6, CardinalityOfKeys
  <2>3. x \in Nat /\ y \in Nat
        BY <1>1, <2>1, KeyIdsAreFinite
  <2>4. x < y \/ y < x
        BY <2>1, <2>3
  <2>5. s = {y, x}
        BY <2>2
  <2> QED BY <1>1, <2>1, <2>2, <2>4, <2>5
<1> QED BY <1>2, <1>3

LEMMA LowestIs ==
    ASSUME NEW s \in SUBSET KeyIds, NEW x \in s, \A y \in s : x <= y
    PROVE  (CHOOSE k \in s : \A y \in s : k <= y) = x
<1> DEFINE low == CHOOSE k \in s : \A y \in s : k <= y
<1>1. low \in s /\ \A y \in s : low <= y
      OBVIOUS
<1>2. low \in Nat /\ x \in Nat
      BY <1>1, KeyIdsAreFinite
<1> QED BY <1>1, <1>2

\* The only key carries the zone, or two of them are there: both in use, or one.
StandsAt(z, t) ==
    \/ t.phase \in {"none", "complex", "no_active"} /\ t.old = 0 /\ t.new = 0
    \/ \E a \in KeyIds :
         t.phase = "idle" /\ t.old = a /\ t.new = 0 /\ z.there = {a} /\ z.active = {a}
    \/ \E a, b \in KeyIds :
         /\ t.old = a /\ t.new = b /\ a < b /\ z.there = {a, b}
         /\ \/ t.phase = "both_active" /\ z.active = {a, b}
            \/ t.phase = "old_retired" /\ z.active = {b}
            \/ t.phase = "new_prepublished" /\ z.active = {a} /\ b \in z.published

LEMMA TrackIs ==
    ASSUME NEW z \in KeyRing
    PROVE  /\ StandsAt(z, Track(z))
           /\ Track(z).phase \in {"idle", "both_active", "old_retired", "new_prepublished"}
                => z.active \subseteq z.published
<1> DEFINE inactive == z.there \ z.active
           a == CHOOSE k \in z.active : \A other \in z.active : k <= other
           i == CHOOSE k \in inactive : \A other \in inactive : k <= other
           b == CHOOSE k \in z.active : k # a
           At(phase, old, new) == [phase |-> phase, old |-> old, new |-> new]
<1>1. /\ z.there \in SUBSET KeyIds /\ z.active \subseteq z.there
      /\ z.active \in SUBSET KeyIds /\ inactive \in SUBSET KeyIds
      BY DEF KeyRing, KeyStates
<1>2. Track(z) = IF z.there = {} THEN At("none", 0, 0)
                 ELSE IF z.active \ z.published # {} THEN At("complex", 0, 0)
                 ELSE IF z.active = {} THEN At("no_active", 0, 0)
                 ELSE IF Cardinality(z.there) > 2 THEN At("complex", 0, 0)
                 ELSE IF Cardinality(z.active) = 2 THEN At("both_active", a, b)
                 ELSE IF inactive = {} THEN At("idle", a, 0)
                 ELSE IF i < a THEN At("old_retired", i, a)
                 ELSE IF i \in z.published THEN At("new_prepublished", a, i)
                 ELSE At("complex", 0, 0)
      BY DEF Track
<1> HIDE DEF a, b, i
<1>3. CASE z.there = {} \/ z.active \ z.published # {} \/ z.active = {}
           \/ Cardinality(z.there) > 2
  <2>1. Track(z) \in {At("none", 0, 0), At("complex", 0, 0), At("no_active", 0, 0)}
        BY <1>2, <1>3
  <2> QED BY <2>1 DEF StandsAt
<1>4. CASE z.there # {} /\ z.active \subseteq z.published /\ z.active # {}
           /\ ~(Cardinality(z.there) > 2)
  <2>1. CASE \E x \in z.there : z.there = {x}
    <3>1. PICK x \in z.there : z.there = {x}
          BY <2>1
    <3>2. z.active = {x} /\ inactive = {} /\ x \in KeyIds
          BY <1>1, <1>4, <3>1
    <3>3. Cardinality(z.active) = 1
          BY <1>1, <3>2, CardinalityOfKeys
    <3>4. a = x
      <4>1. \A y \in z.active : x <= y
            BY <3>2, KeyIdsAreFinite
      <4> QED BY <1>1, <3>2, <4>1, LowestIs DEF a
    <3>5. Track(z) = At("idle", x, 0)
          BY <1>2, <1>4, <3>2, <3>3, <3>4
    <3> QED BY <1>4, <3>1, <3>2, <3>5 DEF StandsAt
  <2>2. CASE \E x, y \in z.there : x < y /\ z.there = {x, y}
    <3>1. PICK x \in z.there, y \in z.there : x < y /\ z.there = {x, y}
          BY <2>2
    <3>2. x \in KeyIds /\ y \in KeyIds /\ x \in Nat /\ y \in Nat /\ x # y
      <4>1. x \in KeyIds /\ y \in KeyIds
            BY <1>1
      <4>2. x \in Nat /\ y \in Nat
            BY <4>1, KeyIdsAreFinite
      <4> QED BY <3>1, <4>1, <4>2
    <3>3. z.active = {x, y} \/ z.active = {x} \/ z.active = {y}
          BY <1>1, <1>4, <3>1
    <3>4. CASE z.active = {x, y}
      <4>1. Cardinality(z.active) = 2
            BY <1>1, <3>2, <3>4, CardinalityOfKeys
      <4>2. a = x
        <5>1. \A k \in z.active : x <= k
              BY <3>1, <3>2, <3>4
        <5> QED BY <1>1, <3>4, <5>1, LowestIs DEF a
      <4>3. b = y
            BY <3>2, <3>4, <4>2 DEF b
      <4>4. Track(z) = At("both_active", x, y)
            BY <1>2, <1>4, <4>1, <4>2, <4>3
      <4> QED BY <1>4, <3>1, <3>2, <3>4, <4>4 DEF StandsAt
    <3>5. CASE z.active = {x}
      <4>1. Cardinality(z.active) = 1 /\ inactive = {y}
            BY <1>1, <3>1, <3>2, <3>5, CardinalityOfKeys
      <4>2. a = x
        <5>1. \A k \in z.active : x <= k
              BY <3>2, <3>5
        <5> QED BY <1>1, <3>5, <5>1, LowestIs DEF a
      <4>3. i = y
        <5>1. y \in inactive /\ \A k \in inactive : y <= k
              BY <3>2, <4>1
        <5> QED BY <1>1, <5>1, LowestIs DEF i
      <4>4. Track(z) = IF y \in z.published THEN At("new_prepublished", x, y)
                       ELSE At("complex", 0, 0)
            BY <1>2, <1>4, <3>1, <3>2, <4>1, <4>2, <4>3
      <4>5. CASE y \in z.published
        <5>1. Track(z) = At("new_prepublished", x, y)
              BY <4>4, <4>5
        <5> QED BY <1>4, <3>1, <3>2, <3>5, <4>5, <5>1 DEF StandsAt
      <4>6. CASE y \notin z.published
        <5>1. Track(z) = At("complex", 0, 0)
              BY <4>4, <4>6
        <5> QED BY <5>1 DEF StandsAt
      <4> QED BY <4>5, <4>6
    <3>6. CASE z.active = {y}
      <4>1. Cardinality(z.active) = 1 /\ inactive = {x}
            BY <1>1, <3>1, <3>2, <3>6, CardinalityOfKeys
      <4>2. a = y
        <5>1. \A k \in z.active : y <= k
              BY <3>2, <3>6
        <5> QED BY <1>1, <3>6, <5>1, LowestIs DEF a
      <4>3. i = x
        <5>1. x \in inactive /\ \A k \in inactive : x <= k
              BY <3>2, <4>1
        <5> QED BY <1>1, <5>1, LowestIs DEF i
      <4>4. Track(z) = At("old_retired", x, y)
            BY <1>2, <1>4, <3>1, <3>2, <4>1, <4>2, <4>3
      <4> QED BY <1>4, <3>1, <3>2, <3>6, <4>4 DEF StandsAt
    <3> QED BY <3>3, <3>4, <3>5, <3>6
  <2> QED BY <1>1, <1>4, <2>1, <2>2, TwoKeys
<1> QED BY <1>3, <1>4

LEMMA TrackType ==
    ASSUME NEW z \in KeyRing
    PROVE  Track(z).old \in 0..KeyBound /\ Track(z).new \in 0..KeyBound
<1>1. KeyIds \subseteq 0..KeyBound /\ 0 \in 0..KeyBound
      BY DnssecAssumption DEF KeyIds
<1> QED BY <1>1, TrackIs DEF StandsAt

LEMMA JobMoves ==
    ASSUME JobTyped, NEW at \in {"sent", "checked", "asks", "answered", "failed", "declined",
                                 "reload"},
           NEW force \in BOOLEAN, NEW read \in KeyRing, NEW wrote \in BOOLEAN, job.at # "idle",
           job' = [job EXCEPT !.at = at, !.force = force, !.read = read, !.wrote = wrote]
    PROVE  JobTyped'
BY DEF JobTyped, JobType

LEMMA JobBegins ==
    ASSUME NEW from \in {"assistant", "table", "dialog"}, NEW todo \in Seq(KeyRequests),
           todo # <<>>, Begin(from, todo)
    PROVE  JobTyped'
BY FreshBrowser DEF Begin, JobTyped, JobType

LEMMA NoJobTyped == job' = NoJob => JobTyped'
BY FreshBrowser DEF JobTyped

LEMMA RequestTyped ==
    ASSUME NEW op \in Ops, NEW k \in 0..KeyBound
    PROVE  /\ Request(op, k) \in KeyRequests /\ Request(op, k).op = op /\ Request(op, k).key = k
           /\ <<Request(op, k)>> \in Seq(KeyRequests) /\ <<Request(op, k)>> # <<>>
<1>1. Request(op, k) \in KeyRequests /\ Request(op, k).op = op /\ Request(op, k).key = k
      BY DEF Request, KeyRequests
<1>2. ASSUME NEW S, NEW x \in S PROVE <<x>> \in Seq(S) /\ <<x>> # <<>>
      BY <1>2
<1> QED BY <1>1, <1>2

\* What a step leaves as it is keeps its type.
LEMMA DnssecUntouched ==
    /\ ServerTyped /\ UNCHANGED zoneVars => ServerTyped'
    /\ StatusTyped /\ UNCHANGED statusVars => StatusTyped'
    /\ AssistantTyped /\ UNCHANGED assistantVars => AssistantTyped'
    /\ JobTyped /\ UNCHANGED job => JobTyped'
    /\ DialogTyped /\ UNCHANGED <<window, capability, forced, byHand>> => DialogTyped'
<1>1. ServerTyped /\ UNCHANGED zoneVars => ServerTyped'
      BY DEF zoneVars, ServerTyped
<1>2. StatusTyped /\ UNCHANGED statusVars => StatusTyped'
      BY DEF statusVars, StatusTyped
<1>3. AssistantTyped /\ UNCHANGED assistantVars => AssistantTyped'
      BY DEF assistantVars, AssistantTyped
<1>4. JobTyped /\ UNCHANGED job => JobTyped'
      BY DEF JobTyped
<1>5. DialogTyped /\ UNCHANGED <<window, capability, forced, byHand>> => DialogTyped'
      BY DEF DialogTyped
<1> QED BY <1>1, <1>2, <1>3, <1>4, <1>5

LEMMA StatusStep ==
    ASSUME DnssecTyped, LoadStatus \/ StatusRead \/ StatusArrives \/ StatusFails
    PROVE  DnssecTyped'
<1> USE DEF DnssecTyped
<1>1. UNCHANGED zoneVars /\ UNCHANGED assistantVars
      /\ UNCHANGED <<window, capability, forced, byHand>>
      BY DEF LoadStatus, StatusRead, StatusArrives, StatusFails, zoneVars, assistantVars
<1>2. StatusTyped'
  <2>1. CASE LoadStatus
        BY <2>1, NoKeysType DEF LoadStatus, AskStatus, StatusTyped
  <2>2. CASE StatusRead
        BY <2>2 DEF StatusRead, StatusTyped, ServerTyped
  <2>3. CASE StatusArrives
        BY <2>3, FreshBrowser DEF StatusArrives, StatusTyped
  <2>4. CASE StatusFails
        BY <2>4, FreshBrowser DEF StatusFails, StatusTyped
  <2> QED BY <2>1, <2>2, <2>3, <2>4
<1>3. JobTyped'
  <2>1. job' = job \/ job' = NoJob
        BY DEF LoadStatus, StatusRead, StatusArrives, StatusFails, JobAfterReload
  <2> QED BY <2>1, NoJobTyped, DnssecUntouched
<1> QED BY <1>1, <1>2, <1>3, DnssecUntouched

LEMMA WindowStep ==
    ASSUME DnssecTyped,
           \/ \E w \in {"ds", "enable", "disable", "addKey", "nsec", "rollover"} : OpenDnssec(w)
           \/ CloseDnssec
    PROVE  DnssecTyped'
<1> USE DEF DnssecTyped
<1>1. UNCHANGED zoneVars /\ UNCHANGED statusVars /\ UNCHANGED job
      BY DEF OpenDnssec, CloseDnssec, zoneVars, statusVars
<1>2. AssistantTyped'
      BY FreshBrowser DEF OpenDnssec, CloseDnssec, AssistantTyped
<1>3. DialogTyped'
      BY DEF OpenDnssec, CloseDnssec, DialogTyped
<1> QED BY <1>1, <1>2, <1>3, DnssecUntouched

LEMMA BoxStep ==
    ASSUME DnssecTyped, TickDisable \/ \E box \in Ticks : TickBox(box)
    PROVE  DnssecTyped'
<1> USE DEF DnssecTyped
<1>1. UNCHANGED zoneVars /\ UNCHANGED statusVars /\ UNCHANGED job
      BY DEF TickDisable, TickBox, zoneVars, statusVars
<1>2. CurrentTicks \in SUBSET Ticks
      BY DEF CurrentTicks, AssistantTyped
<1>3. ASSUME NEW set \in SUBSET Ticks, SetTicks(set)
      PROVE  ticks' \in [key : {ticks'.key}, set : SUBSET Ticks]
      BY <1>3 DEF SetTicks
<1>4. UNCHANGED <<probes, results>>
      BY DEF TickDisable, TickBox
<1>5. ticks' \in [key : {ticks'.key}, set : SUBSET Ticks]
  <2>1. CASE TickDisable
        BY <2>1 DEF TickDisable, Ticks
  <2>2. ASSUME NEW box \in Ticks, TickBox(box)
        PROVE  ticks' \in [key : {ticks'.key}, set : SUBSET Ticks]
    <3>1. SetTicks(CurrentTicks \ {box}) \/ SetTicks(CurrentTicks \cup {box})
          BY <2>2 DEF TickBox
    <3> QED BY <1>2, <1>3, <3>1
  <2> QED BY <2>1, <2>2
<1>6. AssistantTyped'
      BY <1>4, <1>5 DEF AssistantTyped
<1>7. DialogTyped'
      BY DEF TickDisable, TickBox, DialogTyped
<1> QED BY <1>1, <1>6, <1>7, DnssecUntouched

LEMMA ResultsForType ==
    ASSUME AssistantTyped, NEW k
    PROVE  /\ ResultsFor(k) \in [key : {k}, ok : SUBSET Checks, failed : SUBSET Checks,
                                 busy : Checks \cup {"none"}]
           /\ ResultsFor(k).ok \cap ResultsFor(k).failed = {}
<1>1. CASE results.key = k
      BY <1>1 DEF ResultsFor, AssistantTyped
<1>2. CASE results.key # k
      BY <1>2, FreshBrowser DEF ResultsFor
<1> QED BY <1>1, <1>2

LEMMA CheckStep ==
    ASSUME DnssecTyped,
           (\E name \in Checks : StartCheck(name)) \/ (\E p \in probes : CheckAnswered(p))
    PROVE  DnssecTyped'
<1> USE DEF DnssecTyped
<1>1. UNCHANGED zoneVars /\ UNCHANGED statusVars /\ UNCHANGED job
      /\ UNCHANGED <<window, capability, forced, byHand>>
      BY DEF StartCheck, CheckAnswered, zoneVars, statusVars
<1>2. ASSUME NEW name \in Checks, StartCheck(name) PROVE AssistantTyped'
  <2>1. CurrentResults = ResultsFor(PhaseKey)
        BY DEF CurrentResults
  <2>2. results' = [CurrentResults EXCEPT !.busy = name] /\ ticks' = ticks
        /\ probes' = probes \cup {[name |-> name, key |-> PhaseKey]}
        BY <1>2 DEF StartCheck
  <2> HIDE DEF DnssecTyped
  <2>3. AssistantTyped
        BY DEF DnssecTyped
  <2> QED BY <2>1, <2>2, <2>3, ResultsForType DEF AssistantTyped
<1>3. ASSUME NEW p \in probes, CheckAnswered(p) PROVE AssistantTyped'
  <2> DEFINE prev == ResultsFor(p.key)
  <2>1. AssistantTyped /\ p.name \in Checks
        BY DEF AssistantTyped
  <2>2. /\ prev \in [key : {p.key}, ok : SUBSET Checks, failed : SUBSET Checks,
                     busy : Checks \cup {"none"}]
        /\ prev.ok \cap prev.failed = {}
        BY <2>1, ResultsForType
  <2>3. /\ \/ results' = [prev EXCEPT !.busy = "none", !.ok = prev.ok \cup {p.name},
                                      !.failed = prev.failed \ {p.name}]
           \/ results' = [prev EXCEPT !.busy = "none", !.ok = prev.ok \ {p.name},
                                      !.failed = prev.failed \cup {p.name}]
        /\ probes' = probes \ {p} /\ ticks' = ticks
        BY <1>3, <2>2 DEF CheckAnswered
  <2> HIDE DEF prev
  <2>4. \/ results' = [key |-> p.key, ok |-> prev.ok \cup {p.name},
                        failed |-> prev.failed \ {p.name}, busy |-> "none"]
        \/ results' = [key |-> p.key, ok |-> prev.ok \ {p.name},
                        failed |-> prev.failed \cup {p.name}, busy |-> "none"]
        BY <2>2, <2>3
  <2>5. prev.ok \in SUBSET Checks /\ prev.failed \in SUBSET Checks
        BY <2>2
  <2>6. /\ results' \in [key : {results'.key}, ok : SUBSET Checks, failed : SUBSET Checks,
                        busy : Checks \cup {"none"}]
        /\ results'.ok \cap results'.failed = {}
        BY <2>1, <2>2, <2>4, <2>5
  <2> HIDE DEF DnssecTyped
  <2> QED BY <2>1, <2>3, <2>6 DEF AssistantTyped
<1> QED BY <1>1, <1>2, <1>3, DnssecUntouched

LEMMA ButtonStep ==
    ASSUME DnssecTyped,
           \/ StartRollover \/ SubmitDnssec
           \/ \E op \in OneKeyOps, k \in KeyIds : TableAction(op, k)
    PROVE  DnssecTyped'
<1> USE DEF DnssecTyped
<1>1. UNCHANGED zoneVars /\ UNCHANGED statusVars /\ UNCHANGED assistantVars
      BY DEF StartRollover, SubmitDnssec, TableAction, zoneVars, statusVars, assistantVars
<1>2. DialogTyped'
  <2>1. UNCHANGED <<window, capability, forced>> /\ (UNCHANGED byHand \/ ByHand)
        BY DEF StartRollover, SubmitDnssec, TableAction
  <2>2. byHand' \in 0..HandBound
        BY <2>1, DnssecAssumption DEF ByHand, DialogTyped
  <2> HIDE DEF DnssecTyped
  <2>3. DialogTyped
        BY DEF DnssecTyped
  <2> QED BY <2>1, <2>2, <2>3 DEF DialogTyped
<1>3. 0 \in 0..KeyBound /\ KeyIds \subseteq 0..KeyBound
      BY DnssecAssumption DEF KeyIds
<1>4. CASE StartRollover
  <2>1. PhaseKey.old \in 0..KeyBound /\ PhaseKey.new \in 0..KeyBound
        BY TrackType DEF PhaseKey, StatusTyped
  <2>2. PICK todo : /\ Begin("assistant", todo)
                    /\ \/ todo = <<Request("create", 0)>>
                       \/ todo = SwitchRequests(PhaseKey.old, PhaseKey.new)
                       \/ todo = <<Request("deactivate", PhaseKey.old)>>
                       \/ todo = <<Request("delete", PhaseKey.old)>>
        BY <1>4 DEF StartRollover
  <2>3. /\ Request("create", 0) \in KeyRequests
        /\ Request("deactivate", PhaseKey.old) \in KeyRequests
        /\ Request("activate", PhaseKey.new) \in KeyRequests
        /\ Request("delete", PhaseKey.old) \in KeyRequests
        BY <1>3, <2>1, RequestTyped DEF Ops
  <2>4. ASSUME NEW x \in KeyRequests, NEW y \in KeyRequests
        PROVE  /\ <<x>> \in Seq(KeyRequests) /\ <<x>> # <<>>
               /\ <<x, y>> \in Seq(KeyRequests) /\ <<x, y>> # <<>>
        OBVIOUS
  <2>5. todo \in Seq(KeyRequests) /\ todo # <<>>
        BY <2>2, <2>3, <2>4 DEF SwitchRequests
  <2>6. JobTyped'
        BY <2>2, <2>5, JobBegins
  <2> QED BY <1>1, <1>2, <2>6, DnssecUntouched
<1>5. CASE SubmitDnssec
  <2>1. Begin("dialog", <<Request(DialogOp, 0)>>) /\ DialogOp \in Ops
        BY <1>5 DEF SubmitDnssec, DialogOp, Ops
  <2>2. JobTyped'
        BY <1>3, <2>1, RequestTyped, JobBegins
  <2> QED BY <1>1, <1>2, <2>2, DnssecUntouched
<1>6. ASSUME NEW op \in OneKeyOps, NEW k \in KeyIds, TableAction(op, k) PROVE JobTyped'
  <2>1. Begin("table", <<Request(op, k)>>) /\ op \in Ops
        BY <1>6 DEF TableAction, OneKeyOps, Ops
  <2> QED BY <1>3, <2>1, RequestTyped, JobBegins
<1> QED BY <1>1, <1>2, <1>4, <1>5, <1>6, DnssecUntouched

LEMMA ReadStep ==
    ASSUME DnssecTyped,
           BackendReads \/ NextRequest \/ \E yes \in BOOLEAN : AnswerQuestion(yes)
    PROVE  DnssecTyped'
<1> USE DEF DnssecTyped
<1>1. UNCHANGED zoneVars /\ UNCHANGED statusVars /\ UNCHANGED assistantVars
      BY DEF BackendReads, NextRequest, AnswerQuestion, zoneVars, statusVars, assistantVars
<1>2. DialogTyped'
      BY DEF BackendReads, NextRequest, AnswerQuestion, DialogTyped
<1>3. CASE BackendReads
  <2>1. PICK next \in {"failed", "answered", "asks", "checked"} :
          job' = [job EXCEPT !.at = next,
                             !.read = IF next = "checked" THEN keys ELSE NoKeys]
        BY <1>3 DEF BackendReads
  <2>2. JobTyped /\ job.at = "sent"
        BY <1>3 DEF BackendReads
  <2>3. (IF next = "checked" THEN keys ELSE NoKeys) \in KeyRing
        BY NoKeysType DEF ServerTyped
  <2>4. JobTyped'
        BY <2>1, <2>2, <2>3 DEF JobTyped, JobType
  <2> QED BY <1>1, <1>2, <2>4, DnssecUntouched
<1>4. CASE NextRequest
  <2>1. job' = [job EXCEPT !.todo = Tail(job.todo), !.at = "sent", !.force = FALSE]
        /\ JobTyped /\ job.at # "idle" /\ Len(job.todo) > 1
        BY <1>4 DEF NextRequest
  <2>2. Tail(job.todo) \in Seq(KeyRequests) /\ Tail(job.todo) # <<>>
        BY <2>1, FirstRequest
  <2>3. JobTyped'
        BY <2>1, <2>2 DEF JobTyped, JobType
  <2> QED BY <1>1, <1>2, <2>3, DnssecUntouched
<1>5. ASSUME NEW yes \in BOOLEAN, AnswerQuestion(yes) PROVE JobTyped'
  <2>1. /\ JobTyped /\ job.at # "idle"
        /\ \/ job' = [job EXCEPT !.at = "sent", !.force = TRUE]
           \/ job' = [job EXCEPT !.at = "declined"]
        BY <1>5 DEF AnswerQuestion
  <2> QED BY <2>1 DEF JobTyped, JobType
<1> QED BY <1>1, <1>2, <1>3, <1>4, <1>5, DnssecUntouched

LEMMA WriteStep == ASSUME DnssecTyped, BackendWrites PROVE DnssecTyped'
<1> DEFINE req == Head(job.todo)
<1> USE DEF DnssecTyped
<1>1. UNCHANGED statusVars /\ UNCHANGED assistantVars
      /\ UNCHANGED <<window, capability, forced, byHand>>
      BY DEF BackendWrites, statusVars, assistantVars
<1>2. JobTyped /\ ServerTyped /\ job.at = "checked" /\ job.read \in KeyRing
      /\ keys \in KeyRing /\ made \in 0..KeyBound
      BY DEF BackendWrites, JobTyped, JobType, ServerTyped
<1>3. req \in KeyRequests
      BY <1>2, FirstRequest
<1> HIDE DEF req
<1>4. JobTyped'
  <2>1. \/ job' = [job EXCEPT !.at = "answered", !.wrote = TRUE, !.read = NoKeys]
        \/ job' = [job EXCEPT !.at = "failed", !.read = NoKeys]
        BY DEF BackendWrites
  <2> QED BY <1>2, <2>1, NoKeysType DEF JobTyped, JobType
<1>5. ServerTyped'
  <2>1. \/ /\ ~Impossible(keys, req) \/ req.op = "enable"
           /\ req.op \in {"enable", "create"} => made < KeyBound
           /\ SetKeys(Written(job.read, req), req)
        \/ req.op = "disable" /\ \E gone : SetKeys(Without(keys, gone), req)
        \/ UNCHANGED zoneVars
        BY DEF BackendWrites, req
  <2>2. CASE /\ ~Impossible(keys, req) \/ req.op = "enable"
             /\ req.op \in {"enable", "create"} => made < KeyBound
             /\ SetKeys(Written(job.read, req), req)
    <3>1. Written(job.read, req) \in KeyRing
          BY <1>2, <1>3, <2>2, WrittenType
    <3> QED BY <1>2, <2>2, <3>1, SetKeysType
  <2>3. ASSUME req.op = "disable", NEW gone, SetKeys(Without(keys, gone), req)
        PROVE  ServerTyped'
    <3>1. Without(keys, gone) \in KeyRing
          BY <1>2, WithoutType
    <3> QED BY <1>2, <2>3, <3>1, SetKeysType
  <2> QED BY <1>2, <2>1, <2>2, <2>3, DnssecUntouched
<1> QED BY <1>1, <1>4, <1>5, DnssecUntouched

LEMMA JobEndsStep == ASSUME DnssecTyped, JobEnds PROVE DnssecTyped'
<1> USE DEF DnssecTyped
<1>1. UNCHANGED zoneVars /\ UNCHANGED assistantVars
      BY DEF JobEnds, zoneVars, assistantVars
<1>2. StatusTyped'
  <2>1. UNCHANGED <<status, known>> /\ (AskStatus \/ UNCHANGED reload)
        BY DEF JobEnds
  <2> QED BY <2>1, NoKeysType DEF AskStatus, StatusTyped
<1>3. JobTyped'
  <2>1. job' = [job EXCEPT !.at = "reload"] \/ job' = NoJob
        BY DEF JobEnds
  <2>2. job.at # "idle" /\ JobTyped
        BY DEF JobEnds
  <2>3. CASE job' = [job EXCEPT !.at = "reload"]
        BY <2>2, <2>3 DEF JobTyped, JobType
  <2> QED BY <2>1, <2>3, NoJobTyped
<1>4. DialogTyped'
      BY DEF JobEnds, DialogTyped
<1> QED BY <1>1, <1>2, <1>3, <1>4, DnssecUntouched

LEMMA OutsideStep ==
    ASSUME DnssecTyped,
           \/ \E k \in KeyIds : PublishDs(k)
           \/ \E gone \in SUBSET KeyIds : WithdrawDs(gone)
           \/ Propagate \/ OthersChangeKeys
    PROVE  DnssecTyped'
<1> USE DEF DnssecTyped
<1>1. UNCHANGED statusVars /\ UNCHANGED assistantVars /\ UNCHANGED job
      BY DEF PublishDs, WithdrawDs, Propagate, OthersChangeKeys, statusVars, assistantVars
<1>2. DialogTyped'
      BY DnssecAssumption
         DEF PublishDs, WithdrawDs, Propagate, OthersChangeKeys, ByHand, DialogTyped
<1>3. CASE ~OthersChangeKeys
      BY <1>1, <1>2, <1>3, DnssecUntouched DEF PublishDs, WithdrawDs, Propagate, ServerTyped
<1>4. CASE OthersChangeKeys
  <2>1. PICK op \in OtherKinds, k \in KeyIds :
               /\ op = "create" => made < KeyBound
               /\ ~Impossible(keys, Request(op, k))
               /\ SetKeys(After(keys, Request(op, k), made + 1), Request(op, k))
        BY <1>4 DEF OthersChangeKeys
  <2>2. op \in Ops /\ op # "enable" /\ k \in 0..KeyBound
        BY DnssecAssumption DEF Ops, KeyIds
  <2>3. Request(op, k) \in KeyRequests /\ Request(op, k).op = op /\ Request(op, k).key = k
        BY <2>2, RequestTyped
  <2>4. op \in OneKeyOps => k \in keys.there
        BY <2>1, <2>3 DEF Impossible
  <2>5. op = "create" => made + 1 \in KeyIds
        BY <2>1, DnssecAssumption DEF ServerTyped, KeyIds
  <2>6. keys \in KeyRing
        BY DEF ServerTyped
  <2>7. After(keys, Request(op, k), made + 1) \in KeyRing
        BY <2>2, <2>3, <2>4, <2>5, <2>6, AfterType
  <2>8. ServerTyped'
        BY <2>1, <2>2, <2>3, <2>7, SetKeysType
  <2> QED BY <1>1, <1>2, <2>8, DnssecUntouched
<1> QED BY <1>3, <1>4

LEMMA DnssecStep == DnssecTyped /\ [DnssecNext]_dnssecVars => DnssecTyped'
<1> SUFFICES ASSUME DnssecTyped, [DnssecNext]_dnssecVars PROVE DnssecTyped'
    OBVIOUS
<1>1. CASE UNCHANGED dnssecVars
      BY <1>1, DnssecUntouched
         DEF DnssecTyped, dnssecVars, zoneVars, statusVars, assistantVars
<1>2. CASE DnssecNext
      BY <1>2, StatusStep, WindowStep, BoxStep, CheckStep, ButtonStep, ReadStep, WriteStep,
         JobEndsStep, OutsideStep DEF DnssecNext
<1> QED BY <1>1, <1>2

-----------------------------------------------------------------------------
(* Dnssec: the chain of trust.  A key whose DS is published, that every     *)
(* server serves and that signs the zone, is always among the keys that     *)
(* somebody who looks at the card may rely on: those it shows in use, and   *)
(* the new key of the rollover it shows.                                    *)

\* Others create keys and put them into use, and delete those that are not in use.
NobodyDeactivates == "deactivate" \notin OtherKinds

Bearers(z) == Signing(z) \cup {Track(z).new}
Borne(z, lost) ==
    registrar # {} => (registrar \cap served \cap Signing(keys) \cap Bearers(z)) \ lost # {}

Arriving == reload.stage = "read"

\* y was read after x: ids are given out once and in order.
Older(x, y) == \A j \in x.there, k \in y.there : k <= j => k \in x.there
SnapshotInv ==
    /\ keys.there \subseteq 1..made /\ status.there \subseteq 1..made
    /\ reload.keys.there \subseteq 1..made
    /\ Older(status, keys) /\ Older(status, reload.keys) /\ Older(reload.keys, keys)

\* Which button was pressed, and where.
AssistantTodo ==
    \/ job.todo = <<Request("create", 0)>>
    \/ job.todo = SwitchRequests(PhaseKey.old, PhaseKey.new) /\ PhaseKey.phase = "new_prepublished"
    \/ /\ job.todo = <<Request("deactivate", PhaseKey.old)>>
       /\ PhaseKey.phase \in {"new_prepublished", "both_active"}
    \/ job.todo = <<Request("delete", PhaseKey.old)>> /\ PhaseKey.phase = "old_retired"
FromTable ==
    /\ job.from = "table" /\ window = "none"
    /\ \E op \in OneKeyOps, k \in KeyIds : job.todo = <<Request(op, k)>>
FromDialog ==
    /\ job.from = "dialog" /\ window \in {"enable", "disable", "addKey", "nsec"}
    /\ job.todo = <<Request(DialogOp, 0)>>
FromAssistant == job.from = "assistant" /\ window = "rollover" /\ AssistantTodo

JobShape ==
    /\ job = NoJob \/ (job.at # "idle" /\ (FromTable \/ FromDialog \/ FromAssistant))
    /\ job.from \in {"table", "assistant"} /\ job.at # "reload" => reload.stage = "none"
    /\ job.at = "reload" => reload.stage # "none" /\ job.from # "dialog"
    /\ ~job.force
    /\ job.wrote /\ job.from # "assistant" => job.at \in {"answered", "reload"}

\* What the requests of the button rest on until they are carried out.
CarriedOut == Head(job.todo)
Removes(req) == req.op \in {"deactivate", "delete", "unpublish"}
ServedIfThere(k) == k \in 1..made /\ (k \in keys.there => k \in served)
SwitchSafe ==
    /\ registrar # {} => PhaseKey.new \in registrar
    /\ ServedIfThere(PhaseKey.new)
    /\ job.at = "answered" => PhaseKey.new \in keys.active
JobSafe ==
    /\ job.at \in {"sent", "checked", "asks"} /\ Removes(CarriedOut)
         => Borne(status, {CarriedOut.key})
    /\ job.from = "assistant" /\ CarriedOut.op = "activate" => SwitchSafe
    /\ job.at = "checked" /\ CarriedOut.op = "publish" =>
         CarriedOut.key \in 1..made /\ CarriedOut.key \notin keys.published
    /\ job.at # "idle" /\ CarriedOut.op = "disable" /\ (~capability \/ job.at = "checked")
         => registrar = {}

\* A key in use on the screen is in use, unless the browser itself took it out and did
\* not read the status since, or the assistant did, whose old key it is.
Dirty == \/ job.wrote /\ job.at # "reload"
         \/ job.at = "failed" /\ CarriedOut.op = "disable"
TableIsFresh ==
    known = "yes" /\ reload.stage = "none" /\ ~Dirty => Signing(status) \subseteq Signing(keys)
AnswerIsFresh ==
    Arriving /\ (~Dirty \/ registrar # {}) => Signing(reload.keys) \subseteq Signing(keys)
CardIsFresh ==
    known = "yes" /\ registrar # {} /\ job.from \notin {"table", "assistant"} =>
      /\ Signing(status) \subseteq Signing(keys)
      /\ Arriving => Signing(status) \subseteq Signing(reload.keys)
RolloverIsFresh ==
    window = "rollover" /\ registrar # {} =>
      /\ Signing(status) \ {PhaseKey.old} \subseteq Signing(keys)
      /\ Arriving => Signing(status) \ {PhaseKey.old} \subseteq Signing(reload.keys)
FreshInv == TableIsFresh /\ AnswerIsFresh /\ CardIsFresh /\ RolloverIsFresh

CarriedInv == Borne(status, {}) /\ (Arriving => Borne(reload.keys, {}))

\* What was ticked and checked stays true, or the step is over for good.
Vanished(k) == k \in 1..made /\ k \notin keys.there \cup status.there \cup reload.keys.there
DsTicked ==
    "ds" \in ticks.set =>
      /\ ticks.key.old \in KeyIds /\ ticks.key.new \in KeyIds /\ ticks.key.old < ticks.key.new
      /\ ticks.key.new \in registrar \/ Vanished(ticks.key.old)
BoxInv ==
    /\ window # "rollover" => ticks.set \subseteq {"dsRemoved"} /\ results.ok = {} /\ probes = {}
    /\ DsTicked
    /\ "dnskey" \in ticks.set => ServedIfThere(ticks.key.new)
    /\ "dnskey" \in results.ok => ServedIfThere(results.key.new)
    /\ "dnskeyForce" \notin ticks.set
    /\ window = "disable" /\ "dsRemoved" \in ticks.set /\ ~capability => registrar = {}

SafeInv == SnapshotInv /\ JobShape /\ JobSafe /\ FreshInv /\ CarriedInv /\ BoxInv
UnforcedInv == DnssecTyped /\ (~forced => SafeInv)

LEMMA SafeHasChain == DnssecTyped /\ CarriedInv => Chain(keys)
<1>1. CarriedInv => (registrar # {} => registrar \cap Signing(keys) \cap served # {})
      BY DEF CarriedInv, Borne
<1> QED BY <1>1 DEF Chain

LEMMA UnforcedHasChain == UnforcedInv => ChainOfTrust
BY SafeHasChain DEF UnforcedInv, SafeInv, ChainOfTrust

(* Small facts: the step a card shows, and the requests of a button.        *)

LEMMA Phases ==
    ASSUME NEW z \in KeyRing, Track(z).phase \in {"both_active", "old_retired", "new_prepublished"}
    PROVE  /\ Track(z).old \in KeyIds /\ Track(z).new \in KeyIds /\ Track(z).old < Track(z).new
           /\ Track(z).old \in Nat /\ Track(z).new \in Nat
           /\ z.there = {Track(z).old, Track(z).new}
           /\ Track(z).phase = "both_active" => Signing(z) = {Track(z).old, Track(z).new}
           /\ Track(z).phase = "old_retired" => Signing(z) = {Track(z).new}
           /\ Track(z).phase = "new_prepublished" => Signing(z) = {Track(z).old}
<1> DEFINE t == Track(z)
<1>1. StandsAt(z, t) /\ z.active \subseteq z.published
      BY TrackIs
<1> HIDE DEF t
<1>2. t.phase \in {"both_active", "old_retired", "new_prepublished"}
      BY DEF t
<1>3. PICK a \in KeyIds, b \in KeyIds :
        /\ t.old = a /\ t.new = b /\ a < b /\ z.there = {a, b}
        /\ \/ t.phase = "both_active" /\ z.active = {a, b}
           \/ t.phase = "old_retired" /\ z.active = {b}
           \/ t.phase = "new_prepublished" /\ z.active = {a}
      BY <1>1, <1>2 DEF StandsAt
<1>4. a \in Nat /\ b \in Nat
      BY KeyIdsAreFinite
<1>5. Signing(z) = z.active
      BY <1>1 DEF Signing
<1> QED BY <1>3, <1>4, <1>5 DEF t

LEMMA NewKeyIsThere ==
    ASSUME NEW z \in KeyRing
    PROVE  Bearers(z) \subseteq z.there \cup {0}
<1>1. Signing(z) \subseteq z.there
      BY DEF Signing, KeyRing
<1>2. Track(z).new = 0 \/ Track(z).new \in z.there
      BY TrackIs DEF StandsAt
<1> QED BY <1>1, <1>2 DEF Bearers

LEMMA OneRequestToDo ==
    ASSUME NEW op, NEW k, job.todo = <<Request(op, k)>>
    PROVE  CarriedOut.op = op /\ CarriedOut.key = k /\ Len(job.todo) = 1
BY DEF CarriedOut, Request

LEMMA TwoRequestsToDo ==
    ASSUME NEW old, NEW new, job.todo = SwitchRequests(old, new)
    PROVE  /\ CarriedOut.op = "activate" /\ CarriedOut.key = new /\ Len(job.todo) = 2
           /\ Tail(job.todo) = <<Request("deactivate", old)>>
BY DEF CarriedOut, Request, SwitchRequests

(* What a change of the keys may do to those who look at an older status.   *)

KeysMove(lost) ==
    /\ made' \in Nat /\ made <= made' /\ keys'.there \subseteq 1..made'
    /\ \A k \in keys'.there : k \in keys.there \/ k > made
    /\ Signing(keys) \ lost \subseteq Signing(keys')
    /\ (served \cap Signing(keys)) \ lost \subseteq served'
    /\ UNCHANGED registrar
StillServed == \A k : ServedIfThere(k) => ServedIfThere(k)'

LostBy(req) == CASE Removes(req) -> {req.key} [] req.op = "disable" -> KeyIds [] OTHER -> {}
Makes(req) == req.op \in {"create", "enable"}

LEMMA SetKeysMoves ==
    ASSUME ServerTyped, keys.there \subseteq 1..made, NEW z \in KeyRing, NEW req, SetKeys(z, req),
           NEW lost, \A k \in z.there : k \in keys.there \/ (Makes(req) /\ k = made + 1),
           Signing(keys) \ lost \subseteq Signing(z)
    PROVE  KeysMove(lost) /\ (keys.published \cap z.there \subseteq z.published => StillServed)
<1>1. /\ keys' = z /\ served' = served \cap z.published /\ registrar' = registrar
      /\ made' = IF Makes(req) THEN made + 1 ELSE made
      BY DEF SetKeys, Makes
<1>2. made \in Nat /\ made' \in Nat /\ made <= made'
      BY <1>1, DnssecAssumption DEF ServerTyped
<1>3. keys'.there \subseteq 1..made'
  <2> SUFFICES ASSUME NEW k \in z.there PROVE k \in 1..made'
      BY <1>1
  <2>1. CASE k \in keys.there
        BY <1>2, <2>1
  <2>2. CASE Makes(req) /\ k = made + 1
        BY <1>1, <1>2, <2>2
  <2> QED BY <2>1, <2>2
<1>4. \A k \in keys'.there : k \in keys.there \/ k > made
      BY <1>1, <1>2
<1>5. (served \cap Signing(keys)) \ lost \subseteq served'
      BY <1>1 DEF Signing
<1>6. KeysMove(lost)
      BY <1>1, <1>2, <1>3, <1>4, <1>5 DEF KeysMove
<1>7. ASSUME keys.published \cap z.there \subseteq z.published, NEW k, ServedIfThere(k)
      PROVE  ServedIfThere(k)'
  <2>1. k \in 1..made'
        BY <1>2, <1>7 DEF ServedIfThere
  <2>2. ASSUME k \in z.there PROVE k \in served'
    <3>1. k \in keys.there
          BY <1>2, <1>7, <2>2 DEF ServedIfThere
    <3>2. k \in served /\ k \in keys.published
          BY <1>7, <3>1 DEF ServedIfThere, ServerTyped
    <3> QED BY <1>1, <1>7, <2>2, <3>2
  <2> QED BY <1>1, <2>1, <2>2 DEF ServedIfThere
<1> QED BY <1>6, <1>7 DEF StillServed

LEMMA AfterMoves ==
    ASSUME NEW z \in KeyRing, NEW req \in KeyRequests, NEW id
    PROVE  /\ \A k \in After(z, req, id).there : k \in z.there \/ (Makes(req) /\ k = id)
           /\ Signing(z) \ LostBy(req) \subseteq Signing(After(z, req, id))
           /\ req.op # "unpublish" =>
                z.published \cap After(z, req, id).there \subseteq After(z, req, id).published
<1>1. CASE req.op \in {"create", "enable"}
      BY <1>1 DEF After, KeyRing, KeyStates, Makes, Signing
<1>2. CASE req.op \in {"activate", "publish"}
      BY <1>2 DEF After, KeyRing, KeyStates, Signing
<1>3. CASE req.op = "deactivate"
      BY <1>3 DEF After, KeyRing, KeyStates, Signing, LostBy, Removes
<1>4. CASE req.op = "unpublish"
      BY <1>4 DEF After, KeyRing, KeyStates, Signing, LostBy, Removes
<1>5. CASE req.op = "delete"
      BY <1>5 DEF After, Without, KeyRing, KeyStates, Signing, LostBy, Removes
<1>6. CASE req.op \in {"disable", "nsec"}
      BY <1>6 DEF After
<1> QED BY <1>1, <1>2, <1>3, <1>4, <1>5, <1>6 DEF KeyRequests, Ops

LEMMA WithoutMoves ==
    ASSUME NEW z \in KeyRing, NEW gone, NEW req, req.op = "disable"
    PROVE  /\ \A k \in Without(z, gone).there : k \in z.there
           /\ Signing(z) \ LostBy(req) \subseteq Signing(Without(z, gone))
           /\ z.published \cap Without(z, gone).there \subseteq Without(z, gone).published
<1>1. LostBy(req) = KeyIds /\ Signing(z) \subseteq KeyIds
      BY DEF LostBy, Removes, Signing, KeyRing, KeyStates
<1> QED BY <1>1 DEF Without

LEMMA WrittenMoves ==
    ASSUME keys \in KeyRing, NEW read, NEW req \in KeyRequests,
           req.op = "publish" => req.key \notin keys.published
    PROVE  /\ \A k \in Written(read, req).there : k \in keys.there \/ (Makes(req) /\ k = made + 1)
           /\ Signing(keys) \ LostBy(req) \subseteq Signing(Written(read, req))
           /\ req.op # "unpublish" =>
                keys.published \cap Written(read, req).there \subseteq Written(read, req).published
<1>1. CASE req.op = "disable"
      BY <1>1, WithoutMoves DEF Written
<1>2. CASE req.op \in {"publish", "unpublish"}
  <2> DEFINE fresh == After(keys, req, 0)
             z == Written(read, req)
  <2>1. /\ fresh.there = keys.there /\ fresh.active = keys.active
        /\ fresh.published \in {keys.published \cup {req.key}, keys.published \ {req.key}}
        /\ req.op = "publish" => fresh.published = keys.published \cup {req.key}
        /\ req.op = "unpublish" => fresh.published = keys.published \ {req.key}
        /\ fresh = [there |-> fresh.there, active |-> fresh.active, published |-> fresh.published]
        BY <1>2 DEF After, KeyRing, KeyStates
  <2> HIDE DEF fresh
  <2>2. /\ z.there = fresh.there /\ z.published = fresh.published
        /\ \A k : k # req.key => (k \in z.active <=> k \in fresh.active)
        BY <1>2, <2>1 DEF Written, fresh
  <2> HIDE DEF z
  <2>3. req.op = "unpublish" => LostBy(req) = {req.key}
        BY DEF LostBy, Removes
  <2>4. Signing(keys) \ LostBy(req) \subseteq Signing(z)
        BY <1>2, <2>1, <2>2, <2>3 DEF Signing
  <2>5. (\A k \in z.there : k \in keys.there)
        /\ (req.op # "unpublish" => keys.published \cap z.there \subseteq z.published)
        BY <1>2, <2>1, <2>2
  <2> QED BY <2>4, <2>5 DEF z
<1>3. CASE req.op \notin {"disable", "publish", "unpublish"}
  <2>1. Written(read, req) = After(keys, req, made + 1)
        BY <1>3 DEF Written
  <2> QED BY <2>1, AfterMoves
<1> QED BY <1>1, <1>2, <1>3

LEMMA WriteMoves ==
    ASSUME DnssecTyped, SnapshotInv, JobSafe, BackendWrites
    PROVE  /\ KeysMove(LostBy(CarriedOut))
           /\ CarriedOut.op # "unpublish" => StillServed
<1> DEFINE req == CarriedOut
<1>1. /\ ServerTyped /\ keys.there \subseteq 1..made /\ job.at = "checked"
      /\ job.read \in KeyRing /\ keys \in KeyRing /\ made \in 0..KeyBound
      BY DEF BackendWrites, DnssecTyped, JobTyped, JobType, ServerTyped, SnapshotInv
<1>2. req \in KeyRequests
      BY <1>1, FirstRequest DEF DnssecTyped, CarriedOut
<1>3. req.op = "publish" => req.key \notin keys.published
      BY <1>1 DEF JobSafe
<1>4. \/ /\ ~Impossible(keys, req) \/ req.op = "enable"
         /\ req.op \in {"enable", "create"} => made < KeyBound
         /\ SetKeys(Written(job.read, req), req)
      \/ req.op = "disable" /\ \E gone : SetKeys(Without(keys, gone), req)
      \/ UNCHANGED zoneVars
      BY DEF BackendWrites, CarriedOut
<1> HIDE DEF req
<1>5. CASE /\ ~Impossible(keys, req) \/ req.op = "enable"
           /\ req.op \in {"enable", "create"} => made < KeyBound
           /\ SetKeys(Written(job.read, req), req)
  <2>1. Written(job.read, req) \in KeyRing
        BY <1>1, <1>2, <1>5, WrittenType
  <2> QED BY <1>1, <1>2, <1>3, <1>5, <2>1, WrittenMoves, SetKeysMoves DEF req
<1>6. ASSUME req.op = "disable", NEW gone, SetKeys(Without(keys, gone), req)
      PROVE  KeysMove(LostBy(req)) /\ StillServed
  <2>1. Without(keys, gone) \in KeyRing
        BY <1>1, WithoutType
  <2> QED BY <1>1, <1>6, <2>1, WithoutMoves, SetKeysMoves
<1>7. CASE UNCHANGED zoneVars
  <2>1. made \in Nat
        BY <1>1, DnssecAssumption
  <2> QED BY <1>1, <1>7, <2>1 DEF zoneVars, KeysMove, StillServed, ServedIfThere, Signing
<1> QED BY <1>4, <1>5, <1>6, <1>7 DEF req

LEMMA OthersMove ==
    ASSUME NobodyDeactivates, DnssecTyped, SnapshotInv, OthersChangeKeys
    PROVE  /\ KeysMove({}) /\ StillServed
           /\ \A k \in keys'.published : k \in keys.published \/ k > made
<1>1. PICK op \in OtherKinds, k \in KeyIds :
             /\ op = "create" => made < KeyBound
             /\ op = "delete" => k \notin keys.active
             /\ ~Impossible(keys, Request(op, k))
             /\ SetKeys(After(keys, Request(op, k), made + 1), Request(op, k))
      BY DEF OthersChangeKeys
<1> DEFINE req == Request(op, k)
<1>2. op \in {"create", "activate", "delete"} /\ op \in Ops /\ k \in 0..KeyBound
      BY DnssecAssumption DEF NobodyDeactivates, Ops, KeyIds
<1>3. req \in KeyRequests /\ req.op = op /\ req.key = k
      BY <1>2, RequestTyped
<1>4. op \in OneKeyOps => k \in keys.there
      BY <1>1, <1>3 DEF Impossible
<1>5. /\ ServerTyped /\ keys \in KeyRing /\ keys.there \subseteq 1..made
      /\ op = "create" => made + 1 \in KeyIds
      BY <1>1, DnssecAssumption DEF DnssecTyped, ServerTyped, SnapshotInv, KeyIds
<1> HIDE DEF req
<1>6. After(keys, req, made + 1) \in KeyRing
      BY <1>2, <1>3, <1>4, <1>5, AfterType
<1>7. Signing(keys) \ {} \subseteq Signing(After(keys, req, made + 1))
  <2>1. Signing(keys) \ LostBy(req) \subseteq Signing(After(keys, req, made + 1))
        BY <1>3, <1>5, AfterMoves
  <2>2. Signing(keys) \cap LostBy(req) = {}
        BY <1>1, <1>2, <1>3 DEF LostBy, Removes, Signing
  <2> QED BY <2>1, <2>2
<1>8. SetKeys(After(keys, req, made + 1), req)
      BY <1>1 DEF req
<1>9. /\ \A x \in After(keys, req, made + 1).there :
            x \in keys.there \/ (Makes(req) /\ x = made + 1)
      /\ keys.published \cap After(keys, req, made + 1).there
           \subseteq After(keys, req, made + 1).published
      BY <1>2, <1>3, <1>5, AfterMoves
<1>10. \A x \in keys'.published : x \in keys.published \/ x > made
  <2>1. \A x \in After(keys, req, made + 1).published : x \in keys.published \/ x = made + 1
        BY <1>2, <1>3, <1>5 DEF After, Without, KeyRing, KeyStates
  <2>2. made \in Nat
        BY <1>5, DnssecAssumption DEF ServerTyped
  <2> QED BY <1>8, <2>1, <2>2 DEF SetKeys
<1> QED BY <1>5, <1>6, <1>7, <1>8, <1>9, <1>10, SetKeysMoves

\* What a step leaves alone stays as safe as it was.
LEMMA SnapshotUntouched ==
    SnapshotInv /\ UNCHANGED <<keys, made, status, reload>> => SnapshotInv'
BY DEF SnapshotInv, Older

LEMMA ShapeUntouched == JobShape /\ UNCHANGED <<job, window, status, reload>> => JobShape'
<1> SUFFICES ASSUME JobShape, UNCHANGED <<job, window, status, reload>> PROVE JobShape'
    OBVIOUS
<1>1. PhaseKey' = PhaseKey /\ DialogOp' = DialogOp
      BY DEF PhaseKey, DialogOp
<1>2. (FromTable <=> FromTable') /\ (FromDialog <=> FromDialog')
      /\ (FromAssistant <=> FromAssistant')
      BY <1>1 DEF FromTable, FromDialog, FromAssistant, AssistantTodo
<1> QED BY <1>2 DEF JobShape

LEMMA JobSafeUntouched ==
    JobSafe /\ UNCHANGED <<job, status, zoneVars, capability>> => JobSafe'
<1> SUFFICES ASSUME JobSafe, UNCHANGED <<job, status, zoneVars, capability>> PROVE JobSafe'
    OBVIOUS
<1>1. PhaseKey' = PhaseKey /\ CarriedOut' = CarriedOut /\ Bearers(status)' = Bearers(status)
      /\ Signing(keys)' = Signing(keys)
      BY DEF PhaseKey, CarriedOut, Bearers, Signing, zoneVars
<1> QED BY <1>1 DEF JobSafe, SwitchSafe, ServedIfThere, Borne, zoneVars, Removes

LEMMA FreshUntouched ==
    FreshInv /\ UNCHANGED <<known, reload, job, keys, status, registrar, window>> => FreshInv'
<1> SUFFICES ASSUME FreshInv, UNCHANGED <<known, reload, job, keys, status, registrar, window>>
             PROVE  FreshInv'
    OBVIOUS
<1>1. /\ PhaseKey' = PhaseKey /\ (Dirty <=> Dirty') /\ (Arriving <=> Arriving')
      /\ Signing(keys)' = Signing(keys) /\ Signing(status)' = Signing(status)
      /\ Signing(reload.keys)' = Signing(reload.keys)
      BY DEF PhaseKey, Dirty, CarriedOut, Arriving, Signing
<1> QED BY <1>1 DEF FreshInv, TableIsFresh, AnswerIsFresh, CardIsFresh, RolloverIsFresh

LEMMA CarriedUntouched ==
    CarriedInv /\ UNCHANGED <<registrar, served, keys, status, reload>> => CarriedInv'
<1> SUFFICES ASSUME CarriedInv, UNCHANGED <<registrar, served, keys, status, reload>>
             PROVE  CarriedInv'
    OBVIOUS
<1>1. /\ Bearers(status)' = Bearers(status) /\ Bearers(reload.keys)' = Bearers(reload.keys)
      /\ Signing(keys)' = Signing(keys) /\ (Arriving <=> Arriving')
      BY DEF Bearers, Signing, Arriving
<1> QED BY <1>1 DEF CarriedInv, Borne

LEMMA BoxUntouched ==
    BoxInv /\ UNCHANGED <<window, assistantVars, zoneVars, status, reload, capability>> => BoxInv'
BY DEF BoxInv, DsTicked, ServedIfThere, Vanished, assistantVars, zoneVars

(* The keys change: a write of the browser's request, or of others.         *)

LEMMA BorneMoves ==
    ASSUME NEW z, NEW lost, NEW also, Borne(z, lost \cup also), KeysMove(lost)
    PROVE  registrar' # {} =>
             (registrar' \cap served' \cap Signing(keys') \cap Bearers(z)) \ also # {}
BY DEF Borne, KeysMove

LEMMA SnapshotMoves ==
    ASSUME SnapshotInv, NEW lost, KeysMove(lost), ServerTyped, UNCHANGED <<status, reload>>
    PROVE  SnapshotInv'
<1>1. made \in Nat /\ made' \in Nat /\ made <= made' /\ keys'.there \subseteq 1..made'
      /\ \A k \in keys'.there : k \in keys.there \/ k > made
      BY DnssecAssumption DEF KeysMove, ServerTyped
<1>2. status.there \subseteq 1..made' /\ reload.keys.there \subseteq 1..made'
      BY <1>1 DEF SnapshotInv
<1>3. ASSUME NEW x, x.there \subseteq 1..made, Older(x, keys)
      PROVE  \A j \in x.there, k \in keys'.there : k <= j => k \in x.there
  <2> SUFFICES ASSUME NEW j \in x.there, NEW k \in keys'.there, k <= j PROVE k \in x.there
      OBVIOUS
  <2>1. j \in Nat /\ j <= made /\ k \in Nat
        BY <1>1, <1>3
  <2>2. k \in keys.there
        BY <1>1, <2>1
  <2> QED BY <1>3, <2>2 DEF Older
<1>4. Older(status, keys)' /\ Older(reload.keys, keys)'
      BY <1>3 DEF SnapshotInv, Older
<1> QED BY <1>1, <1>2, <1>4 DEF SnapshotInv, Older

LEMMA VanishedMoves ==
    ASSUME NEW lost, KeysMove(lost), made \in Nat, UNCHANGED <<status, reload>>,
           NEW k, Vanished(k)
    PROVE  Vanished(k)'
<1>1. k \in 1..made /\ made' \in Nat /\ made <= made' /\ k \notin keys.there
      BY DEF KeysMove, Vanished
<1>2. k \in 1..made' /\ k \notin keys'.there
      BY <1>1 DEF KeysMove
<1> QED BY <1>2 DEF Vanished

\* Boxes and answers survive a change that does not withdraw a key of the zone.
LEMMA BoxMoves ==
    ASSUME BoxInv, NEW lost, KeysMove(lost), made \in Nat,
           StillServed \/ window # "rollover",
           UNCHANGED <<window, assistantVars, status, reload, capability>>
    PROVE  BoxInv'
<1>1. DsTicked'
      BY VanishedMoves DEF BoxInv, DsTicked, KeysMove, assistantVars
<1>2. ticks' = ticks /\ results' = results /\ window' = window
      BY DEF assistantVars
<1>3. ASSUME window = "rollover", NEW k, ServedIfThere(k)
      PROVE  k \in 1..made' /\ (k \in keys'.there => k \in served')
      BY <1>3 DEF StillServed, ServedIfThere
<1>5. window # "rollover" => "dnskey" \notin ticks.set /\ "dnskey" \notin results.ok
      BY DEF BoxInv
<1>6. /\ ("dnskey" \in ticks.set => ServedIfThere(ticks.key.new))'
      /\ ("dnskey" \in results.ok => ServedIfThere(results.key.new))'
      BY <1>2, <1>3, <1>5 DEF BoxInv, ServedIfThere
<1>4. registrar' = registrar
      BY DEF KeysMove
<1> QED BY <1>1, <1>2, <1>4, <1>6 DEF BoxInv, assistantVars

\* Where a button comes from, and what it carries out.
LEMMA JobOrigin ==
    ASSUME JobShape, job.at # "idle"
    PROVE  \/ /\ job.from = "table" /\ window = "none"
              /\ CarriedOut.op \in OneKeyOps /\ Len(job.todo) = 1
           \/ /\ job.from = "dialog" /\ window \in {"enable", "disable", "addKey", "nsec"}
              /\ CarriedOut.op \in {"enable", "disable", "create", "nsec"} /\ Len(job.todo) = 1
              /\ CarriedOut.op = "disable" <=> window = "disable"
           \/ /\ job.from = "assistant" /\ window = "rollover"
              /\ \/ CarriedOut.op = "create" /\ Len(job.todo) = 1
                 \/ /\ CarriedOut.op = "activate" /\ CarriedOut.key = PhaseKey.new
                    /\ Len(job.todo) = 2 /\ PhaseKey.phase = "new_prepublished"
                    /\ Tail(job.todo) = <<Request("deactivate", PhaseKey.old)>>
                 \/ /\ CarriedOut.op \in {"deactivate", "delete"} /\ Len(job.todo) = 1
                    /\ CarriedOut.key = PhaseKey.old
<1>1. FromTable \/ FromDialog \/ FromAssistant
      BY DEF JobShape, NoJob
<1>2. CASE FromTable
      BY <1>2, OneRequestToDo DEF FromTable
<1>3. CASE FromDialog
  <2>1. CarriedOut.op = DialogOp /\ Len(job.todo) = 1
        BY <1>3, OneRequestToDo DEF FromDialog
  <2> QED BY <1>3, <2>1 DEF FromDialog, DialogOp
<1>4. CASE FromAssistant
      BY <1>4, OneRequestToDo, TwoRequestsToDo DEF FromAssistant, AssistantTodo
<1> QED BY <1>1, <1>2, <1>3, <1>4

LEMMA OthersSafe ==
    ASSUME NobodyDeactivates, DnssecTyped, SafeInv, OthersChangeKeys
    PROVE  SafeInv'
<1>1. /\ KeysMove({}) /\ StillServed
      /\ \A k \in keys'.published : k \in keys.published \/ k > made
      BY OthersMove DEF SafeInv
<1>2. /\ UNCHANGED <<status, reload>> /\ UNCHANGED job /\ UNCHANGED <<window, known>>
      /\ UNCHANGED assistantVars /\ UNCHANGED capability
      BY DEF OthersChangeKeys, assistantVars
<1>3. ServerTyped /\ made \in Nat /\ SnapshotInv /\ JobShape /\ JobSafe /\ FreshInv
      /\ CarriedInv /\ BoxInv
      BY DnssecAssumption DEF DnssecTyped, ServerTyped, SafeInv
<1>4. SnapshotInv'
      BY <1>1, <1>2, <1>3, SnapshotMoves
<1>5. JobShape'
      BY <1>2, <1>3, ShapeUntouched
<1>6. /\ PhaseKey' = PhaseKey /\ CarriedOut' = CarriedOut /\ Bearers(status)' = Bearers(status)
      /\ Bearers(reload.keys)' = Bearers(reload.keys) /\ Signing(keys)' = Signing(keys')
      /\ Signing(keys) \subseteq Signing(keys') /\ (Dirty <=> Dirty') /\ (Arriving <=> Arriving')
      /\ Signing(status)' = Signing(status) /\ Signing(reload.keys)' = Signing(reload.keys)
      /\ registrar' = registrar
      BY <1>1, <1>2 DEF PhaseKey, CarriedOut, Bearers, Signing, KeysMove, Dirty, Arriving
<1>7. JobSafe'
  <2>1. ASSUME NEW k, Borne(status, {k}) PROVE Borne(status, {k})'
        BY <1>1, <1>6, <2>1, BorneMoves DEF Borne
  <2>2. ASSUME SwitchSafe PROVE SwitchSafe'
    <3>1. ServedIfThere(PhaseKey.new)'
          BY <1>1, <1>6, <2>2 DEF SwitchSafe, StillServed, ServedIfThere
    <3>2. PhaseKey.new \in keys.active => PhaseKey.new \in Signing(keys)
          BY <1>3, <2>2 DEF SwitchSafe, ServedIfThere, ServerTyped, KeyRing, Signing
    <3>3. PhaseKey.new \in keys.active => PhaseKey.new \in keys'.active
          BY <1>6, <3>2 DEF Signing
    <3> QED BY <1>2, <1>6, <2>2, <3>1, <3>3 DEF SwitchSafe
  <2>3. job.at = "checked" /\ CarriedOut.op = "publish" =>
          CarriedOut.key \in 1..made' /\ CarriedOut.key \notin keys'.published
        BY <1>1, <1>3 DEF JobSafe, KeysMove
  <2> QED BY <1>2, <1>3, <1>6, <2>1, <2>2, <2>3 DEF JobSafe, Removes
<1>8. FreshInv'
      BY <1>2, <1>3, <1>6
         DEF FreshInv, TableIsFresh, AnswerIsFresh, CardIsFresh, RolloverIsFresh
<1>9. CarriedInv'
  <2>1. ASSUME NEW z, Borne(z, {})
        PROVE  registrar' # {} =>
                 (registrar' \cap served' \cap Signing(keys') \cap Bearers(z)) \ {} # {}
    <3>1. Borne(z, {} \cup {})
          BY <2>1
    <3> QED BY <1>1, <3>1, BorneMoves
  <2> QED BY <1>3, <1>6, <2>1 DEF CarriedInv, Borne
<1>10. BoxInv'
       BY <1>1, <1>2, <1>3, BoxMoves
<1> QED BY <1>4, <1>5, <1>7, <1>8, <1>9, <1>10 DEF SafeInv

LEMMA WriteSafe ==
    ASSUME DnssecTyped, SafeInv, BackendWrites
    PROVE  SafeInv'
<1> DEFINE lost == LostBy(CarriedOut)
<1>1. KeysMove(lost) /\ (CarriedOut.op # "unpublish" => StillServed)
      BY WriteMoves DEF SafeInv
<1>2. /\ UNCHANGED <<status, reload>> /\ UNCHANGED <<window, known>>
      /\ UNCHANGED assistantVars /\ UNCHANGED capability
      BY DEF BackendWrites, assistantVars
<1>3. /\ ServerTyped /\ made \in Nat /\ SnapshotInv /\ JobShape /\ JobSafe /\ FreshInv
      /\ CarriedInv /\ BoxInv /\ job \in JobType /\ job.at = "checked"
      BY DnssecAssumption DEF DnssecTyped, ServerTyped, SafeInv, JobTyped, BackendWrites
<1>4. /\ job' = [job EXCEPT !.at = job'.at, !.wrote = job'.wrote, !.read = NoKeys]
      /\ \/ job'.at = "answered" /\ job'.wrote
         \/ job'.at = "failed" /\ job'.wrote = job.wrote
            /\ (CarriedOut.op = "disable" \/ UNCHANGED zoneVars)
      BY <1>3 DEF BackendWrites, JobType, CarriedOut
<1>5. /\ job'.from = job.from /\ job'.todo = job.todo /\ job'.force = job.force
      /\ job'.at \in {"answered", "failed"} /\ CarriedOut' = CarriedOut
      BY <1>3, <1>4 DEF JobType, CarriedOut
<1>6. /\ PhaseKey' = PhaseKey /\ Bearers(status)' = Bearers(status)
      /\ Bearers(reload.keys)' = Bearers(reload.keys) /\ Signing(keys)' = Signing(keys')
      /\ (Arriving <=> Arriving') /\ Signing(keys) \ lost \subseteq Signing(keys')
      /\ Signing(status)' = Signing(status) /\ Signing(reload.keys)' = Signing(reload.keys)
      /\ registrar' = registrar /\ DialogOp' = DialogOp
      BY <1>1, <1>2 DEF PhaseKey, Bearers, Signing, KeysMove, Arriving, DialogOp
\* A status on its way can only be read beside a dialog, which removes nothing as long
\* as the parent publishes DS records.
<1>7. \/ job.from = "table" /\ window = "none" /\ lost \subseteq {CarriedOut.key} /\ ~Arriving
      \/ /\ job.from = "dialog" /\ window # "rollover" /\ (registrar # {} => lost = {})
         /\ CarriedOut.op # "unpublish"
      \/ /\ job.from = "assistant" /\ window = "rollover" /\ lost \subseteq {PhaseKey.old}
         /\ ~Arriving /\ CarriedOut.op # "unpublish"
  <2>1. job.from \in {"table", "assistant"} => ~Arriving
        BY <1>3 DEF JobShape, Arriving
  <2>2. CarriedOut.op = "disable" => registrar = {}
        BY <1>3 DEF JobSafe
  <2>3. /\ CarriedOut.op \in OneKeyOps => lost \subseteq {CarriedOut.key}
        /\ CarriedOut.op \in {"enable", "create", "nsec", "activate"} => lost = {}
        BY DEF LostBy, Removes, OneKeyOps
  <2> HIDE DEF lost
  <2> QED BY <1>3, <2>1, <2>2, <2>3, JobOrigin DEF OneKeyOps
<1>8. registrar # {} => Borne(status, lost)
  <2>1. CASE Removes(CarriedOut)
    <3>1. lost = {CarriedOut.key}
          BY <2>1 DEF LostBy, Removes
    <3> QED BY <1>3, <2>1, <3>1 DEF JobSafe
  <2>2. CASE CarriedOut.op = "disable"
        BY <1>3, <2>2 DEF JobSafe
  <2>3. CASE ~Removes(CarriedOut) /\ CarriedOut.op # "disable"
    <3>1. lost = {}
          BY <2>3 DEF LostBy
    <3> QED BY <1>3, <3>1 DEF CarriedInv
  <2> QED BY <2>1, <2>2, <2>3
<1>9. Dirty <=> job.wrote
      BY <1>3 DEF Dirty
<1>10. ~Dirty' => ~Dirty /\ UNCHANGED zoneVars
       BY <1>3, <1>4, <1>5, <1>9 DEF Dirty
<1>s. SnapshotInv'
      BY <1>1, <1>2, <1>3, SnapshotMoves
<1>j. JobShape'
  <2>1. FromTable \/ FromDialog \/ FromAssistant
        BY <1>3 DEF JobShape, NoJob
  <2>2. (FromTable \/ FromDialog \/ FromAssistant)'
        BY <1>2, <1>5, <1>6, <2>1 DEF FromTable, FromDialog, FromAssistant, AssistantTodo
  <2>3. job'.wrote /\ job'.from # "assistant" => job'.at = "answered"
        BY <1>3, <1>4, <1>5 DEF JobShape
  <2> QED BY <1>2, <1>3, <1>5, <2>2, <2>3 DEF JobShape
<1>k. JobSafe'
  <2>1. ASSUME job.from = "assistant", CarriedOut.op = "activate" PROVE SwitchSafe'
    <3>1. SwitchSafe /\ StillServed /\ CarriedOut.key = PhaseKey.new
      <4>1. CarriedOut.key = PhaseKey.new
            BY <1>3, <2>1, JobOrigin
      <4> QED BY <1>1, <1>3, <2>1, <4>1 DEF JobSafe
    <3>2. ServedIfThere(PhaseKey.new)'
          BY <1>6, <3>1 DEF SwitchSafe, StillServed, ServedIfThere
    <3>3. job'.at = "answered" => PhaseKey.new \in keys'.active
      <4> SUFFICES ASSUME job'.at = "answered" PROVE PhaseKey.new \in keys'.active
          OBVIOUS
      <4>1. SetKeys(Written(job.read, CarriedOut), CarriedOut)
            BY <1>3, <1>5 DEF BackendWrites, CarriedOut, JobType
      <4>2. keys' = [keys EXCEPT !.active = keys.active \cup {CarriedOut.key}]
            BY <1>3, <2>1, <4>1 DEF SetKeys, Written, After, ServerTyped, KeyRing, KeyStates
      <4> QED BY <1>3, <3>1, <4>2 DEF ServerTyped, KeyRing, KeyStates
    <3> QED BY <1>5, <1>6, <3>1, <3>2, <3>3 DEF SwitchSafe
  <2> QED BY <1>2, <1>3, <1>5, <1>6, <2>1 DEF JobSafe, Removes
<1>f. FreshInv'
  <2>1. TableIsFresh'
        BY <1>2, <1>3, <1>6, <1>10 DEF FreshInv, TableIsFresh, zoneVars
  <2>2. AnswerIsFresh'
        BY <1>2, <1>3, <1>6, <1>7, <1>10 DEF FreshInv, AnswerIsFresh, zoneVars
  <2>3. CardIsFresh'
        BY <1>2, <1>3, <1>5, <1>6, <1>7 DEF FreshInv, CardIsFresh
  <2>4. RolloverIsFresh'
        BY <1>2, <1>3, <1>6, <1>7 DEF FreshInv, RolloverIsFresh
  <2> QED BY <2>1, <2>2, <2>3, <2>4 DEF FreshInv
<1>c. CarriedInv'
  <2>1. ASSUME NEW z, registrar # {} => Borne(z, lost)
        PROVE  registrar' # {} =>
                 (registrar' \cap served' \cap Signing(keys') \cap Bearers(z)) \ {} # {}
    <3>1. registrar # {} => Borne(z, lost \cup {})
          BY <2>1
    <3> HIDE DEF lost
    <3> QED BY <1>1, <1>6, <3>1, BorneMoves
  <2>2. Arriving => (registrar # {} => Borne(reload.keys, lost))
        BY <1>3, <1>7 DEF CarriedInv
  <2> HIDE DEF lost
  <2> QED BY <1>6, <1>8, <2>1, <2>2 DEF CarriedInv, Borne
<1>b. BoxInv'
  <2>1. StillServed \/ window # "rollover"
        BY <1>1, <1>7
  <2> HIDE DEF lost
  <2> QED BY <1>1, <1>2, <1>3, <2>1, BoxMoves
<1> QED BY <1>s, <1>j, <1>k, <1>f, <1>c, <1>b DEF SafeInv

(* The status comes and goes.                                               *)

LEMMA BesideALoad ==
    ASSUME JobShape, reload.stage # "none"
    PROVE  \/ job = NoJob
           \/ job.at = "reload"
           \/ FromDialog /\ job.at # "idle" /\ CarriedOut.op \in {"enable", "disable", "create", "nsec"}
<1>1. CASE job # NoJob /\ job.at # "reload"
  <2>1. job.from \notin {"table", "assistant"} /\ job.at # "idle"
        BY <1>1 DEF JobShape
  <2>2. FromDialog
        BY <1>1, <2>1 DEF JobShape, FromTable, FromAssistant
  <2> QED BY <2>1, <2>2, JobOrigin
<1> QED BY <1>1

\* When the answer is there, the button that waited for it is free.
LEMMA AnswerSafe ==
    ASSUME SafeInv, StatusArrives \/ StatusFails
    PROVE  /\ JobShape' /\ JobSafe' /\ (Dirty' <=> Dirty)
           /\ job'.from \notin {"table", "assistant"}
<1>1. /\ reload.stage # "none" /\ reload' = NoReload /\ job' = JobAfterReload
      /\ UNCHANGED <<window, zoneVars, capability>>
      BY DEF StatusArrives, StatusFails, Loading, zoneVars
<1>2. JobShape /\ JobSafe
      BY DEF SafeInv
<1>3. reload'.stage = "none"
      BY <1>1 DEF NoReload
<1>4. NoJob.at = "idle" /\ NoJob.from = "none" /\ NoJob.wrote = FALSE /\ NoJob.force = FALSE
      BY DEF NoJob
<1>5. CASE job' = NoJob /\ (job = NoJob \/ job.at = "reload")
  <2>1. JobShape'
        BY <1>3, <1>4, <1>5 DEF JobShape
  <2>2. JobSafe'
        BY <1>4, <1>5 DEF JobSafe
  <2>3. ~Dirty' /\ ~Dirty
        BY <1>4, <1>5 DEF Dirty
  <2> QED BY <1>4, <1>5, <2>1, <2>2, <2>3
<1>6. CASE /\ job' = job /\ FromDialog /\ job.at \notin {"idle", "reload"}
           /\ CarriedOut.op \in {"enable", "disable", "create", "nsec"}
  <2>1. CarriedOut' = CarriedOut /\ DialogOp' = DialogOp /\ job.from = "dialog"
        BY <1>1, <1>6 DEF CarriedOut, DialogOp, FromDialog
  <2>2. FromDialog'
        BY <1>1, <1>6, <2>1 DEF FromDialog
  <2>3. JobShape'
        BY <1>2, <1>6, <2>1, <2>2 DEF JobShape
  <2>4. JobSafe'
        BY <1>1, <1>2, <1>6, <2>1 DEF JobSafe, Removes, zoneVars
  <2>5. Dirty' <=> Dirty
        BY <1>6, <2>1 DEF Dirty
  <2> QED BY <1>6, <2>1, <2>3, <2>4, <2>5
<1>7. \/ job = NoJob \/ job.at = "reload"
      \/ /\ FromDialog /\ job.at \notin {"idle", "reload"}
         /\ CarriedOut.op \in {"enable", "disable", "create", "nsec"}
      BY <1>1, <1>2, BesideALoad
<1> QED BY <1>1, <1>5, <1>6, <1>7 DEF JobAfterReload

LEMMA VanishedStays ==
    ASSUME BoxInv, UNCHANGED <<window, assistantVars, zoneVars, capability>>,
           \A k : Vanished(k) => Vanished(k)'
    PROVE  BoxInv'
<1>1. DsTicked'
      BY DEF BoxInv, DsTicked, assistantVars, zoneVars
<1> QED BY <1>1 DEF BoxInv, ServedIfThere, assistantVars, zoneVars

LEMMA LoadSafe ==
    ASSUME DnssecTyped, SafeInv, LoadStatus
    PROVE  SafeInv'
<1> USE DEF SafeInv
<1>1. /\ window = "none" /\ job = NoJob /\ reload' = [stage |-> "asked", keys |-> NoKeys]
      /\ UNCHANGED <<keys, made, status, known, job, window, capability>>
      /\ UNCHANGED zoneVars /\ UNCHANGED assistantVars
      BY DEF LoadStatus, AskStatus, zoneVars, assistantVars
<1>2. reload'.stage = "asked" /\ reload'.keys.there = {} /\ ~Arriving'
      BY <1>1 DEF NoKeys, Arriving
<1>3. SnapshotInv'
      BY <1>1, <1>2 DEF SnapshotInv, Older
<1>4. JobShape'
      BY <1>1 DEF JobShape, NoJob
<1>5. JobSafe'
      BY <1>1, JobSafeUntouched
<1>6. FreshInv'
  <2>1. Signing(keys)' = Signing(keys) /\ Signing(status)' = Signing(status)
        BY <1>1 DEF Signing
  <2> QED BY <1>1, <1>2, <2>1
             DEF FreshInv, TableIsFresh, AnswerIsFresh, CardIsFresh, RolloverIsFresh, zoneVars
<1>7. CarriedInv'
  <2>1. Bearers(status)' = Bearers(status) /\ Signing(keys)' = Signing(keys)
        BY <1>1 DEF Bearers, Signing
  <2> QED BY <1>1, <1>2, <2>1 DEF CarriedInv, Borne, zoneVars
<1>8. BoxInv'
      BY <1>1, <1>2, VanishedStays DEF Vanished
<1> QED BY <1>3, <1>4, <1>5, <1>6, <1>7, <1>8

LEMMA ReadSafe ==
    ASSUME DnssecTyped, SafeInv, StatusRead
    PROVE  SafeInv'
<1> USE DEF SafeInv
<1>1. /\ reload.stage = "asked" /\ reload' = [stage |-> "read", keys |-> keys]
      /\ UNCHANGED <<keys, made, status, known, job, window, capability>>
      /\ UNCHANGED zoneVars /\ UNCHANGED assistantVars
      BY DEF StatusRead, zoneVars, assistantVars
<1>2. reload'.stage = "read" /\ reload'.keys = keys /\ Arriving' /\ ~Arriving
      BY <1>1 DEF Arriving
<1>3. /\ PhaseKey' = PhaseKey /\ Bearers(status)' = Bearers(status)
      /\ Signing(keys)' = Signing(keys) /\ Signing(status)' = Signing(status)
      /\ Signing(reload.keys)' = Signing(keys)
      /\ Signing(keys) \subseteq Bearers(reload.keys)'
      /\ CarriedOut' = CarriedOut /\ DialogOp' = DialogOp
      BY <1>1, <1>2 DEF PhaseKey, Bearers, Signing, CarriedOut, DialogOp
<1>4. SnapshotInv'
      BY <1>1, <1>2 DEF SnapshotInv, Older
<1>5. JobShape'
  <2>1. (FromTable <=> FromTable') /\ (FromDialog <=> FromDialog')
        /\ (FromAssistant <=> FromAssistant')
        BY <1>1, <1>3 DEF FromTable, FromDialog, FromAssistant, AssistantTodo
  <2> QED BY <1>1, <1>2, <2>1 DEF JobShape
<1>6. JobSafe'
      BY <1>1, JobSafeUntouched
<1>7. FreshInv'
      BY <1>1, <1>2, <1>3
         DEF FreshInv, TableIsFresh, AnswerIsFresh, CardIsFresh, RolloverIsFresh, zoneVars
<1>8. CarriedInv'
      BY <1>1, <1>2, <1>3 DEF CarriedInv, Borne, zoneVars
<1>9. BoxInv'
      BY <1>1, <1>2, VanishedStays DEF Vanished
<1> QED BY <1>4, <1>5, <1>6, <1>7, <1>8, <1>9

LEMMA ArriveSafe ==
    ASSUME DnssecTyped, SafeInv, StatusArrives
    PROVE  SafeInv'
<1> USE DEF SafeInv
<1>1. /\ Arriving /\ status' = reload.keys /\ known' = "yes" /\ reload' = NoReload
      /\ UNCHANGED <<keys, made, window, capability>>
      /\ UNCHANGED zoneVars /\ UNCHANGED assistantVars
      BY DEF StatusArrives, Arriving, zoneVars, assistantVars
<1>2. reload'.stage = "none" /\ reload'.keys.there = {} /\ ~Arriving'
      BY <1>1 DEF NoReload, NoKeys, Arriving
<1>3. /\ Bearers(status)' = Bearers(reload.keys) /\ Signing(keys)' = Signing(keys)
      /\ Signing(status)' = Signing(reload.keys)
      BY <1>1 DEF Bearers, Signing
<1>4. JobShape' /\ JobSafe' /\ (Dirty' <=> Dirty) /\ job'.from \notin {"table", "assistant"}
      BY AnswerSafe
<1>5. SnapshotInv'
      BY <1>1, <1>2 DEF SnapshotInv, Older
<1>6. FreshInv'
      BY <1>1, <1>2, <1>3, <1>4
         DEF FreshInv, TableIsFresh, AnswerIsFresh, CardIsFresh, RolloverIsFresh, zoneVars
<1>7. CarriedInv'
      BY <1>1, <1>2, <1>3 DEF CarriedInv, Borne, zoneVars
<1>8. BoxInv'
      BY <1>1, <1>2, VanishedStays DEF Vanished
<1> QED BY <1>4, <1>5, <1>6, <1>7, <1>8

LEMMA FailSafe ==
    ASSUME DnssecTyped, SafeInv, StatusFails
    PROVE  SafeInv'
<1> USE DEF SafeInv
<1>1. /\ known' = "failed" /\ reload' = NoReload
      /\ UNCHANGED <<keys, made, status, window, capability>>
      /\ UNCHANGED zoneVars /\ UNCHANGED assistantVars
      BY DEF StatusFails, zoneVars, assistantVars
<1>2. reload'.stage = "none" /\ reload'.keys.there = {} /\ ~Arriving'
      BY <1>1 DEF NoReload, NoKeys, Arriving
<1>3. /\ PhaseKey' = PhaseKey /\ Bearers(status)' = Bearers(status)
      /\ Signing(keys)' = Signing(keys) /\ Signing(status)' = Signing(status)
      BY <1>1 DEF PhaseKey, Bearers, Signing
<1>4. JobShape' /\ JobSafe'
      BY AnswerSafe
<1>5. SnapshotInv'
      BY <1>1, <1>2 DEF SnapshotInv, Older
<1>6. FreshInv'
      BY <1>1, <1>2, <1>3
         DEF FreshInv, TableIsFresh, AnswerIsFresh, CardIsFresh, RolloverIsFresh, zoneVars
<1>7. CarriedInv'
      BY <1>1, <1>2, <1>3 DEF CarriedInv, Borne, zoneVars
<1>8. BoxInv'
      BY <1>1, <1>2, VanishedStays DEF Vanished
<1> QED BY <1>4, <1>5, <1>6, <1>7, <1>8

(* The dialogs, their boxes and the DNSKEY checks.                          *)

LEMMA OpenSafe ==
    ASSUME DnssecTyped, SafeInv,
           \/ CloseDnssec
           \/ \E w \in {"ds", "enable", "disable", "addKey", "nsec", "rollover"} : OpenDnssec(w)
    PROVE  SafeInv'
<1> USE DEF SafeInv
<1>1. /\ job = NoJob /\ (window' = "rollover" => known = "yes")
      /\ ticks' = NoTicks /\ probes' = {} /\ results' = NoResults
      /\ UNCHANGED <<keys, made, status, reload, known, job, capability, registrar, served>>
      BY DEF CloseDnssec, OpenDnssec
<1>2. UNCHANGED zoneVars
      BY <1>1 DEF zoneVars
<1>3. SnapshotInv' /\ JobSafe' /\ CarriedInv'
      BY <1>1, <1>2, SnapshotUntouched, JobSafeUntouched, CarriedUntouched
<1>4. JobShape'
      BY <1>1 DEF JobShape, NoJob
<1>5. FreshInv'
  <2>1. /\ PhaseKey' = PhaseKey /\ (Dirty <=> Dirty') /\ (Arriving <=> Arriving')
        /\ Signing(keys)' = Signing(keys) /\ Signing(status)' = Signing(status)
        /\ Signing(reload.keys)' = Signing(reload.keys)
        BY <1>1 DEF PhaseKey, Dirty, CarriedOut, Arriving, Signing
  <2>2. job.from = "none"
        BY <1>1 DEF NoJob
  <2>3. RolloverIsFresh'
        BY <1>1, <2>1, <2>2 DEF FreshInv, CardIsFresh, RolloverIsFresh
  <2> QED BY <1>1, <2>1, <2>3 DEF FreshInv, TableIsFresh, AnswerIsFresh, CardIsFresh
<1>6. BoxInv'
  <2>1. ticks'.set = {} /\ results'.ok = {} /\ probes' = {}
        BY <1>1 DEF NoTicks, NoResults
  <2> QED BY <2>1 DEF BoxInv, DsTicked
<1> QED BY <1>3, <1>4, <1>5, <1>6

\* Steps of the assistant that only its boxes and answers notice.
LEMMA OnlyBoxes ==
    ASSUME SafeInv, BoxInv',
           UNCHANGED <<keys, made, registrar, served, status, known, reload, window, job, capability>>
    PROVE  SafeInv'
<1>1. UNCHANGED zoneVars
      BY DEF zoneVars
<1> QED BY <1>1, SnapshotUntouched, ShapeUntouched, JobSafeUntouched, FreshUntouched,
           CarriedUntouched DEF SafeInv

LEMMA TickSafe ==
    ASSUME DnssecTyped, SafeInv, NEW box \in Ticks, TickBox(box), ~forced'
    PROVE  SafeInv'
<1>1. /\ window = "rollover" /\ BoxShown(box)
      /\ UNCHANGED <<keys, made, registrar, served, status, known, reload, window, job, capability>>
      /\ UNCHANGED <<probes, results>>
      BY DEF TickBox
<1>2. PICK set \in SUBSET Ticks :
        /\ SetTicks(set)
        /\ \A b \in set : b \in CurrentTicks \/ (b = box /\ Truthful(box) /\ box # "dnskeyForce")
  <2>1. CurrentTicks \in SUBSET Ticks
        BY DEF CurrentTicks, DnssecTyped, AssistantTyped
  <2>2. CASE SetTicks(CurrentTicks \ {box})
        BY <2>1, <2>2
  <2>3. CASE SetTicks(CurrentTicks \cup {box}) /\ Truthful(box) /\ box # "dnskeyForce"
        BY <2>1, <2>3
  <2>4. box = "dnskeyForce" => box \in {ForceOf(name) : name \in Checks}
        BY DEF ForceOf, Checks
  <2> QED BY <2>2, <2>3, <2>4 DEF TickBox
<1>3. ticks'.key = PhaseKey /\ ticks'.set = set
      BY <1>2 DEF SetTicks
<1>4. \A b \in CurrentTicks : ticks.key = PhaseKey /\ b \in ticks.set
      BY DEF CurrentTicks
<1>5. BoxInv /\ SnapshotInv /\ status \in KeyRing /\ ServerTyped /\ made \in Nat
      BY DnssecAssumption DEF SafeInv, DnssecTyped, StatusTyped, ServerTyped
<1>6. DsTicked'
  <2> SUFFICES ASSUME "ds" \in set
               PROVE  /\ PhaseKey.old \in KeyIds /\ PhaseKey.new \in KeyIds
                      /\ PhaseKey.old < PhaseKey.new
                      /\ PhaseKey.new \in registrar \/ Vanished(PhaseKey.old)
      BY <1>1, <1>3 DEF DsTicked, Vanished
  <2>1. CASE "ds" \in CurrentTicks
        BY <1>4, <1>5, <2>1 DEF BoxInv, DsTicked
  <2>2. CASE "ds" \notin CurrentTicks
    <3>1. box = "ds" /\ Truthful("ds")
          BY <1>2, <2>2
    <3>2. PhaseKey.phase \in {"new_prepublished", "both_active"}
          BY <1>1, <3>1 DEF BoxShown, Checks, ForceOf
    <3> QED BY <1>5, <3>1, <3>2, Phases DEF Truthful, PhaseKey
  <2> QED BY <2>1, <2>2
<1>7. "dnskey" \in set => ServedIfThere(PhaseKey.new)
  <2> SUFFICES ASSUME "dnskey" \in set PROVE ServedIfThere(PhaseKey.new)
      OBVIOUS
  <2>1. CASE "dnskey" \in CurrentTicks
        BY <1>4, <1>5, <2>1 DEF BoxInv
  <2>2. CASE "dnskey" \notin CurrentTicks
    <3>1. PhaseKey.new \in served
          BY <1>2, <2>2 DEF Truthful
    <3>2. PhaseKey.new \in keys.there
          BY <1>5, <3>1 DEF ServerTyped, KeyRing
    <3> QED BY <1>5, <3>1, <3>2 DEF ServedIfThere, SnapshotInv
  <2> QED BY <2>1, <2>2
<1>8. "dnskeyForce" \notin set
      BY <1>2, <1>4, <1>5 DEF BoxInv
<1>9. BoxInv'
      BY <1>1, <1>3, <1>5, <1>6, <1>7, <1>8 DEF BoxInv, ServedIfThere
<1> QED BY <1>1, <1>9, OnlyBoxes

LEMMA TickDisableSafe ==
    ASSUME DnssecTyped, SafeInv, TickDisable
    PROVE  SafeInv'
<1>1. /\ window = "disable" /\ (capability \/ registrar = {})
      /\ ticks'.set = {"dsRemoved"} /\ UNCHANGED <<probes, results>>
      /\ UNCHANGED <<keys, made, registrar, served, status, known, reload, window, job, capability>>
      BY DEF TickDisable
<1>2. BoxInv'
      BY <1>1 DEF SafeInv, BoxInv, DsTicked, ServedIfThere
<1> QED BY <1>1, <1>2, OnlyBoxes

LEMMA StartCheckSafe ==
    ASSUME DnssecTyped, SafeInv, NEW name \in Checks, StartCheck(name)
    PROVE  SafeInv'
<1>1. /\ window = "rollover" /\ UNCHANGED ticks
      /\ results' = [CurrentResults EXCEPT !.busy = name]
      /\ UNCHANGED <<keys, made, registrar, served, status, known, reload, window, job, capability>>
      BY DEF StartCheck
<1>2. CurrentResults \in [key : {PhaseKey}, ok : SUBSET Checks, failed : SUBSET Checks,
                          busy : Checks \cup {"none"}]
      BY ResultsForType DEF CurrentResults, DnssecTyped
<1>3. results'.key = CurrentResults.key /\ results'.ok = CurrentResults.ok
      BY <1>1, <1>2
<1>4. CurrentResults = results \/ CurrentResults.ok = {}
      BY DEF CurrentResults, ResultsFor, NoResults
<1>5. BoxInv'
      BY <1>1, <1>3, <1>4 DEF SafeInv, BoxInv, DsTicked, ServedIfThere, Vanished
<1> QED BY <1>1, <1>5, OnlyBoxes

LEMMA CheckAnsweredSafe ==
    ASSUME DnssecTyped, SafeInv, NEW p \in probes, CheckAnswered(p)
    PROVE  SafeInv'
<1> DEFINE prev == ResultsFor(p.key)
<1>1. /\ UNCHANGED ticks
      /\ UNCHANGED <<keys, made, registrar, served, status, known, reload, window, job, capability>>
      BY DEF CheckAnswered
<1>2. prev \in [key : {p.key}, ok : SUBSET Checks, failed : SUBSET Checks,
                busy : Checks \cup {"none"}]
      BY ResultsForType DEF DnssecTyped
<1>3. /\ results'.key = p.key
      /\ \A x \in results'.ok : x \in prev.ok \/ p.key.new \in served
      BY <1>2 DEF CheckAnswered
<1>4. prev = results \/ prev.ok = {}
      BY DEF ResultsFor, NoResults
<1> HIDE DEF prev
<1>5. BoxInv /\ SnapshotInv /\ ServerTyped
      BY DEF SafeInv, DnssecTyped
<1>6. window = "rollover"
      BY <1>5 DEF BoxInv
<1>7. p.key.new \in served => ServedIfThere(p.key.new)
      BY <1>5 DEF ServedIfThere, ServerTyped, KeyRing, SnapshotInv
<1>8. "dnskey" \in results'.ok => ServedIfThere(results'.key.new)
  <2>1. CASE prev = results
        BY <1>2, <1>3, <1>5, <1>7, <2>1 DEF BoxInv
  <2> QED BY <1>3, <1>4, <1>7, <2>1
<1>9. BoxInv'
      BY <1>1, <1>5, <1>6, <1>8 DEF BoxInv, DsTicked, ServedIfThere, Vanished
<1> QED BY <1>1, <1>9, OnlyBoxes

(* The buttons.                                                             *)

\* A button that was just pressed changes what follows from its own requests.
LEMMA ButtonSafe ==
    ASSUME DnssecTyped, SafeInv, job = NoJob, NEW from, NEW todo, Begin(from, todo),
           from \in {"table", "assistant"} => reload.stage = "none",
           UNCHANGED <<keys, made, registrar, served, status, known, reload, window, ticks,
                       probes, results, capability>>,
           (FromTable \/ FromDialog \/ FromAssistant)', JobSafe'
    PROVE  SafeInv'
<1>1. /\ job'.from = from /\ job'.at = "sent" /\ job'.wrote = FALSE /\ job'.force = FALSE
      /\ job.at = "idle" /\ job.from = "none" /\ job.wrote = FALSE
      BY DEF Begin, NoJob
<1>2. UNCHANGED zoneVars /\ UNCHANGED assistantVars
      BY DEF zoneVars, assistantVars
<1>3. SnapshotInv' /\ CarriedInv' /\ BoxInv'
      BY <1>2, SnapshotUntouched, CarriedUntouched, BoxUntouched DEF SafeInv
<1>4. JobShape'
      BY <1>1 DEF JobShape
<1>5. FreshInv'
  <2>1. /\ PhaseKey' = PhaseKey /\ ~Dirty /\ ~Dirty' /\ (Arriving <=> Arriving')
        /\ Signing(keys)' = Signing(keys) /\ Signing(status)' = Signing(status)
        /\ Signing(reload.keys)' = Signing(reload.keys)
        BY <1>1 DEF PhaseKey, Dirty, Arriving, Signing
  <2> QED BY <1>1, <2>1
             DEF SafeInv, FreshInv, TableIsFresh, AnswerIsFresh, CardIsFresh, RolloverIsFresh
<1> QED BY <1>3, <1>4, <1>5 DEF SafeInv

LEMMA TableSafe ==
    ASSUME DnssecTyped, SafeInv, NEW op \in OneKeyOps, NEW k \in KeyIds, TableAction(op, k)
    PROVE  SafeInv'
<1>1. /\ window = "none" /\ job = NoJob /\ CardTrusted /\ k \in status.there
      /\ Chain(After(status, Request(op, k), 0)) /\ Begin("table", <<Request(op, k)>>)
      /\ UNCHANGED <<keys, made, registrar, served, status, known, reload, window, ticks,
                     probes, results, capability>>
      BY DEF TableAction
<1>2. /\ known = "yes" /\ reload.stage = "none" /\ ~Dirty
      BY <1>1 DEF CardTrusted, Loading, Dirty, NoJob
<1>3. Signing(status) \subseteq Signing(keys)
      BY <1>2 DEF SafeInv, FreshInv, TableIsFresh
<1>4. job'.from = "table" /\ job'.todo = <<Request(op, k)>> /\ job'.at = "sent"
      BY <1>1 DEF Begin, NoJob
<1>5. FromTable'
      BY <1>1, <1>4 DEF FromTable
<1>6. CarriedOut'.op = op /\ CarriedOut'.key = k
      BY <1>4 DEF CarriedOut, Request
<1>7. op \in {"deactivate", "delete", "unpublish"} => Borne(status, {k})'
  <2> SUFFICES ASSUME op \in {"deactivate", "delete", "unpublish"}, registrar # {}
               PROVE  (registrar \cap served \cap Signing(keys) \cap Bearers(status)) \ {k} # {}
      BY <1>1 DEF Borne, Bearers, Signing
  <2>1. PICK r \in registrar \cap served : r \in Signing(After(status, Request(op, k), 0))
        BY <1>1 DEF Chain
  <2>2. Signing(After(status, Request(op, k), 0)) \subseteq Signing(status) \ {k}
    <3>1. status \in KeyRing /\ Request(op, k).op = op /\ Request(op, k).key = k
          BY DEF DnssecTyped, StatusTyped, Request
    <3> QED BY <3>1 DEF After, Without, Signing, KeyRing, KeyStates
  <2> QED BY <1>3, <2>1, <2>2 DEF Bearers
<1>8. JobSafe'
      BY <1>4, <1>6, <1>7 DEF JobSafe, Removes, OneKeyOps
<1> QED BY <1>1, <1>2, <1>5, <1>8, ButtonSafe

LEMMA SubmitSafe ==
    ASSUME DnssecTyped, SafeInv, SubmitDnssec
    PROVE  SafeInv'
<1>1. /\ window \in {"enable", "disable", "addKey", "nsec"} /\ job = NoJob
      /\ window = "disable" => "dsRemoved" \in ticks.set
      /\ Begin("dialog", <<Request(DialogOp, 0)>>)
      /\ UNCHANGED <<keys, made, registrar, served, status, known, reload, window, ticks,
                     probes, results, capability>>
      BY DEF SubmitDnssec
<1>2. job'.from = "dialog" /\ job'.todo = <<Request(DialogOp, 0)>> /\ job'.at = "sent"
      BY <1>1 DEF Begin, NoJob
<1>3. FromDialog'
      BY <1>1, <1>2 DEF FromDialog, DialogOp
<1>4. CarriedOut'.op = DialogOp
      BY <1>2 DEF CarriedOut, Request
<1>5. DialogOp \notin {"deactivate", "delete", "unpublish"}
      /\ (DialogOp = "disable" => window = "disable")
      BY <1>1 DEF DialogOp
<1>6. window = "disable" /\ ~capability => registrar = {}
      BY <1>1 DEF SafeInv, BoxInv
<1>7. JobSafe'
      BY <1>1, <1>2, <1>4, <1>5, <1>6 DEF JobSafe, Removes
<1> QED BY <1>1, <1>3, <1>7, ButtonSafe

\* The assistant goes on when the new key is served and has its DS.
LEMMA RolloverSafe ==
    ASSUME DnssecTyped, SafeInv, StartRollover, ~forced
    PROVE  SafeInv'
<1> DEFINE p == PhaseKey
<1>1. /\ window = "rollover" /\ job = NoJob /\ reload.stage = "none" /\ ActionAllowed
      /\ UNCHANGED <<keys, made, registrar, served, status, known, reload, window, ticks,
                     probes, results, capability>>
      BY DEF StartRollover, Locked, Busy, Loading
<1>2. p.phase \in {"idle", "new_prepublished", "both_active", "old_retired"}
      BY <1>1 DEF ActionAllowed
<1>3. PICK todo :
        /\ Begin("assistant", todo)
        /\ \/ p.phase = "idle" /\ todo = <<Request("create", 0)>>
           \/ p.phase = "new_prepublished" /\ todo = SwitchRequests(p.old, p.new)
           \/ p.phase = "both_active" /\ todo = <<Request("deactivate", p.old)>>
           \/ p.phase = "old_retired" /\ todo = <<Request("delete", p.old)>>
      BY <1>2 DEF StartRollover
<1>4. job'.from = "assistant" /\ job'.todo = todo /\ job'.at = "sent" /\ p' = p
      BY <1>1, <1>3 DEF Begin, NoJob, PhaseKey
<1>5. FromAssistant'
      BY <1>1, <1>3, <1>4 DEF FromAssistant, AssistantTodo
<1>6. /\ SnapshotInv /\ FreshInv /\ CarriedInv /\ BoxInv /\ status \in KeyRing /\ ServerTyped
      BY DEF SafeInv, DnssecTyped, StatusTyped
<1>7. p.phase # "idle" =>
        /\ p.old \in KeyIds /\ p.new \in KeyIds /\ p.old < p.new /\ p.old \in Nat /\ p.new \in Nat
        /\ status.there = {p.old, p.new}
        /\ p.phase = "both_active" => Signing(status) = {p.old, p.new}
        /\ p.phase = "old_retired" => Signing(status) = {p.new}
      BY <1>2, <1>6, Phases DEF PhaseKey
<1>8. ASSUME p.phase \in {"new_prepublished", "both_active"}
      PROVE  p.new \in registrar /\ ServedIfThere(p.new)
  <2>1. Passed("dnskey") /\ "ds" \in CurrentTicks
        BY <1>1, <1>8 DEF ActionAllowed
  <2>2. ticks.key = p /\ "ds" \in ticks.set
        BY <2>1 DEF CurrentTicks
  <2>3. p.new \in registrar
        BY <1>6, <1>7, <1>8, <2>2 DEF BoxInv, DsTicked, Vanished
  <2>4. "dnskeyForce" \notin CurrentTicks
        BY <1>6 DEF BoxInv, CurrentTicks
  <2>5. "dnskey" \in CurrentTicks \/ "dnskey" \in CurrentResults.ok
        BY <2>1, <2>4 DEF Passed, ForceOf
  <2>6. "dnskey" \in CurrentTicks => ServedIfThere(p.new)
        BY <1>6, <2>2 DEF BoxInv, CurrentTicks
  <2>7. "dnskey" \in CurrentResults.ok => ServedIfThere(p.new)
    <3>1. "dnskey" \in CurrentResults.ok => results.key = p /\ "dnskey" \in results.ok
          BY DEF CurrentResults, ResultsFor, NoResults
    <3> QED BY <1>6, <3>1 DEF BoxInv
  <2> QED BY <2>3, <2>5, <2>6, <2>7
<1>9. CASE p.phase = "idle"
  <2>1. CarriedOut'.op = "create"
        BY <1>3, <1>4, <1>9 DEF CarriedOut, Request
  <2>2. JobSafe'
        BY <1>4, <2>1 DEF JobSafe, Removes
  <2> QED BY <1>1, <1>3, <1>5, <2>2, ButtonSafe
<1>10. CASE p.phase = "new_prepublished"
  <2>1. CarriedOut'.op = "activate"
        BY <1>3, <1>4, <1>10 DEF CarriedOut, Request, SwitchRequests
  <2>2. SwitchSafe'
        BY <1>1, <1>4, <1>8, <1>10 DEF SwitchSafe, ServedIfThere
  <2>3. JobSafe'
        BY <1>4, <2>1, <2>2 DEF JobSafe, Removes
  <2> QED BY <1>1, <1>3, <1>5, <2>3, ButtonSafe
<1>11. ASSUME p.phase \in {"both_active", "old_retired"}
       PROVE  SafeInv'
  <2>1. CarriedOut'.op \in {"deactivate", "delete"} /\ CarriedOut'.key = p.old
        BY <1>3, <1>4, <1>11 DEF CarriedOut, Request
  <2>2. registrar # {} => p.new \in registrar \cap served \cap Signing(keys) \cap Bearers(status)
    <3> SUFFICES ASSUME registrar # {}
                 PROVE  p.new \in registrar \cap served \cap Signing(keys) \cap Bearers(status)
        OBVIOUS
    <3>1. p.new \in Bearers(status)
          BY DEF Bearers, PhaseKey
    <3>2. CASE p.phase = "both_active"
      <4>1. p.new \in Signing(status) \ {p.old}
            BY <1>7, <3>2
      <4>2. p.new \in Signing(keys)
            BY <1>1, <1>6, <4>1 DEF FreshInv, RolloverIsFresh
      <4>3. p.new \in keys.there
            BY <1>6, <4>2 DEF Signing, ServerTyped, KeyRing
      <4> QED BY <1>8, <3>1, <3>2, <4>2, <4>3 DEF ServedIfThere
    <3>3. CASE p.phase = "old_retired"
      <4>1. Bearers(status) = {p.new}
            BY <1>7, <3>3 DEF Bearers, PhaseKey
      <4> QED BY <1>6, <4>1 DEF CarriedInv, Borne
    <3> QED BY <1>11, <3>2, <3>3
  <2>3. p.new # p.old
        BY <1>7, <1>11
  <2>4. Borne(status, {p.old})'
        BY <1>1, <1>4, <2>2, <2>3 DEF Borne, Bearers, Signing
  <2>5. JobSafe'
        BY <1>4, <2>1, <2>4 DEF JobSafe, Removes
  <2> QED BY <1>1, <1>3, <1>5, <2>5, ButtonSafe
<1> QED BY <1>2, <1>9, <1>10, <1>11

(* The requests of a button.                                                *)

\* A button that goes on without a write.
LEMMA JobGoesOn ==
    ASSUME SafeInv, job.at \in {"sent", "asks", "answered"},
           job' = [job EXCEPT !.at = job'.at, !.read = job'.read], job \in JobType,
           job'.at \in {"sent", "checked", "asks", "answered", "failed", "declined"},
           job.wrote /\ job.from # "assistant" => job'.at = "answered",
           UNCHANGED <<keys, made, registrar, served, status, known, reload, window, ticks,
                       probes, results, capability>>,
           JobSafe'
    PROVE  SafeInv'
<1>1. /\ job'.from = job.from /\ job'.todo = job.todo /\ job'.force = job.force
      /\ job'.wrote = job.wrote
      BY DEF JobType
<1>2. UNCHANGED zoneVars /\ UNCHANGED assistantVars
      BY DEF zoneVars, assistantVars
<1>3. SnapshotInv' /\ CarriedInv' /\ BoxInv'
      BY <1>2, SnapshotUntouched, CarriedUntouched, BoxUntouched DEF SafeInv
<1>4. JobShape'
  <2>1. FromTable \/ FromDialog \/ FromAssistant
        BY DEF SafeInv, JobShape, NoJob
  <2>2. PhaseKey' = PhaseKey /\ DialogOp' = DialogOp
        BY DEF PhaseKey, DialogOp
  <2>3. (FromTable \/ FromDialog \/ FromAssistant)'
        BY <1>1, <2>1, <2>2 DEF FromTable, FromDialog, FromAssistant, AssistantTodo
  <2> QED BY <1>1, <2>3 DEF SafeInv, JobShape
<1>5. FreshInv'
  <2>1. /\ PhaseKey' = PhaseKey /\ (Dirty => Dirty') /\ (Arriving <=> Arriving')
        /\ Signing(keys)' = Signing(keys) /\ Signing(status)' = Signing(status)
        /\ Signing(reload.keys)' = Signing(reload.keys)
        BY <1>1 DEF PhaseKey, Dirty, Arriving, Signing
  <2> QED BY <1>1, <2>1
             DEF SafeInv, FreshInv, TableIsFresh, AnswerIsFresh, CardIsFresh, RolloverIsFresh
<1> QED BY <1>3, <1>4, <1>5 DEF SafeInv

LEMMA BackendReadsSafe ==
    ASSUME DnssecTyped, SafeInv, BackendReads
    PROVE  SafeInv'
<1> DEFINE req == CarriedOut
<1>1. /\ job.at = "sent"
      /\ UNCHANGED <<keys, made, registrar, served, status, known, reload, window, ticks,
                     probes, results, capability>>
      BY DEF BackendReads
<1>2. job \in JobType /\ JobSafe /\ JobShape /\ ServerTyped /\ req \in KeyRequests
      /\ keys.there \subseteq 1..made
      BY <1>1, FirstRequest DEF DnssecTyped, JobTyped, SafeInv, SnapshotInv, CarriedOut
<1>3. /\ job' = [job EXCEPT !.at = job'.at, !.read = job'.read]
      /\ job'.at \in {"failed", "answered", "asks", "checked"}
      /\ job'.at = "answered" => Unchanged(keys, req)
      /\ job'.at = "checked" => ~Impossible(keys, req) /\ ~Unchanged(keys, req)
                                /\ ~NeedsForce(keys, req)
      BY <1>2 DEF BackendReads, JobType, JobShape, CarriedOut
<1>4. ~job.wrote \/ job.from = "assistant"
      BY <1>1, <1>2 DEF JobShape
<1>5. /\ job'.from = job.from /\ job'.todo = job.todo /\ CarriedOut' = CarriedOut
      /\ PhaseKey' = PhaseKey /\ Bearers(status)' = Bearers(status)
      /\ Signing(keys)' = Signing(keys)
      BY <1>1, <1>2, <1>3 DEF JobType, CarriedOut, PhaseKey, Bearers, Signing
<1>6. job.from = "assistant" /\ req.op = "activate" => SwitchSafe'
  <2> SUFFICES ASSUME job.from = "assistant", req.op = "activate" PROVE SwitchSafe'
      OBVIOUS
  <2>1. SwitchSafe /\ req.key = PhaseKey.new
    <3>1. req.key = PhaseKey.new
          BY <1>1, <1>2, JobOrigin
    <3> QED BY <1>2, <3>1 DEF JobSafe
  <2>2. Unchanged(keys, req) => req.key \in keys.active
        BY <1>2 DEF Unchanged, After, ServerTyped, KeyRing, KeyStates
  <2> QED BY <1>1, <1>3, <1>5, <2>1, <2>2 DEF SwitchSafe, ServedIfThere
<1>7. job'.at = "checked" /\ req.op = "publish" => req.key \in 1..made /\ req.key \notin keys.published
  <2> SUFFICES ASSUME job'.at = "checked", req.op = "publish"
               PROVE  req.key \in 1..made /\ req.key \notin keys.published
      OBVIOUS
  <2>1. req.key \in keys.there
        BY <1>3 DEF Impossible, OneKeyOps
  <2>2. keys.published \cup {req.key} = keys.published => After(keys, req, 0) = keys
        BY <1>2 DEF After, ServerTyped, KeyRing, KeyStates
  <2> QED BY <1>2, <1>3, <2>1, <2>2 DEF Unchanged
<1>8. req.op = "disable" /\ (~capability \/ job'.at = "checked") => registrar = {}
      BY <1>1, <1>2, <1>3 DEF JobSafe, NeedsForce, Unchanged
<1> HIDE DEF req
<1>9. JobSafe'
  <2>1. job'.at \in {"sent", "checked", "asks"} /\ Removes(req) => Borne(status, {req.key})
        BY <1>1, <1>2 DEF JobSafe, req
  <2> QED BY <1>1, <1>5, <1>6, <1>7, <1>8, <2>1 DEF JobSafe, Removes, Borne, req
<1> QED BY <1>1, <1>2, <1>3, <1>4, <1>9, JobGoesOn

LEMMA DeclineSafe ==
    ASSUME DnssecTyped, SafeInv, NEW yes \in BOOLEAN, AnswerQuestion(yes), ~forced'
    PROVE  SafeInv'
<1>1. /\ job.at = "asks" /\ job' = [job EXCEPT !.at = "declined"]
      /\ UNCHANGED <<keys, made, registrar, served, status, known, reload, window, ticks,
                     probes, results, capability>>
      BY DEF AnswerQuestion
<1>2. job \in JobType /\ JobSafe /\ JobShape
      BY DEF DnssecTyped, JobTyped, SafeInv
<1>3. /\ job'.at = "declined" /\ job'.from = job.from /\ CarriedOut' = CarriedOut
      /\ job' = [job EXCEPT !.at = job'.at, !.read = job'.read]
      /\ PhaseKey' = PhaseKey
      BY <1>1, <1>2 DEF JobType, CarriedOut, PhaseKey
<1>4. ~job.wrote \/ job.from = "assistant"
      BY <1>1, <1>2 DEF JobShape
<1>5. JobSafe'
      BY <1>1, <1>2, <1>3 DEF JobSafe, SwitchSafe, ServedIfThere
<1> QED BY <1>1, <1>2, <1>3, <1>4, <1>5, JobGoesOn

\* The old key goes off when the new one is on.
LEMMA NextRequestSafe ==
    ASSUME DnssecTyped, SafeInv, NextRequest
    PROVE  SafeInv'
<1>1. /\ job.at = "answered" /\ Len(job.todo) > 1
      /\ job' = [job EXCEPT !.todo = Tail(job.todo), !.at = "sent", !.force = FALSE]
      /\ UNCHANGED <<keys, made, registrar, served, status, known, reload, window, ticks,
                     probes, results, capability>>
      BY DEF NextRequest
<1>2. /\ job \in JobType /\ JobSafe /\ JobShape /\ ServerTyped /\ status \in KeyRing
      /\ FreshInv
      BY DEF DnssecTyped, JobTyped, StatusTyped, SafeInv
<1>3. /\ job.from = "assistant" /\ window = "rollover" /\ CarriedOut.op = "activate"
      /\ PhaseKey.phase = "new_prepublished"
      /\ Tail(job.todo) = <<Request("deactivate", PhaseKey.old)>>
  <2>1. job.at # "idle"
        BY <1>1
  <2>2. job.todo \in Seq(KeyRequests)
        BY <1>2 DEF JobType
  <2>3. Len(job.todo) # 1
    <3>1. \A n \in Nat : n > 1 => n # 1
          OBVIOUS
    <3> QED BY <1>1, <2>2, <3>1
  <2> QED BY <1>2, <2>1, <2>3, JobOrigin
<1>4. /\ job'.from = "assistant" /\ job'.at = "sent" /\ job'.force = FALSE
      /\ job'.wrote = job.wrote /\ job'.todo = <<Request("deactivate", PhaseKey.old)>>
      /\ PhaseKey' = PhaseKey /\ job' # NoJob
  <2>1. /\ job'.from = job.from /\ job'.at = "sent" /\ job'.force = FALSE
        /\ job'.wrote = job.wrote /\ job'.todo = Tail(job.todo)
        BY <1>1, <1>2 DEF JobType
  <2>2. job'.from = "assistant" /\ job'.todo = <<Request("deactivate", PhaseKey.old)>>
        BY <1>3, <2>1
  <2>3. job' # NoJob
        BY <2>2 DEF NoJob
  <2> QED BY <1>1, <2>1, <2>2, <2>3 DEF PhaseKey
<1>5. CarriedOut'.op = "deactivate" /\ CarriedOut'.key = PhaseKey.old
      BY <1>4 DEF CarriedOut, Request
<1>6. UNCHANGED zoneVars /\ UNCHANGED assistantVars
      BY <1>1 DEF zoneVars, assistantVars
<1>7. SnapshotInv' /\ CarriedInv' /\ BoxInv'
      BY <1>1, <1>6, SnapshotUntouched, CarriedUntouched, BoxUntouched DEF SafeInv
<1>8. JobShape'
  <2>1. FromAssistant'
        BY <1>1, <1>3, <1>4 DEF FromAssistant, AssistantTodo
  <2>2. reload.stage = "none"
        BY <1>1, <1>2, <1>3 DEF JobShape
  <2> QED BY <1>1, <1>4, <2>1, <2>2 DEF JobShape
<1>9. JobSafe'
  <2>1. SwitchSafe
        BY <1>2, <1>3 DEF JobSafe
  <2>2. PhaseKey.new \in keys.active /\ PhaseKey.new \in keys.there
        BY <1>1, <1>2, <2>1 DEF SwitchSafe, ServerTyped, KeyRing
  <2>3. PhaseKey.new \in served /\ PhaseKey.new \in Signing(keys)
        BY <1>2, <2>1, <2>2 DEF SwitchSafe, ServedIfThere, ServerTyped, Signing
  <2>4. PhaseKey.new # PhaseKey.old
        BY <1>2, <1>3, Phases DEF PhaseKey
  <2>5. Borne(status, {PhaseKey.old})
        BY <2>1, <2>3, <2>4 DEF SwitchSafe, Borne, Bearers, PhaseKey
  <2>6. Borne(status, {PhaseKey.old})'
        BY <1>1, <1>4, <2>5 DEF Borne, Bearers, Signing
  <2> QED BY <1>4, <1>5, <2>6 DEF JobSafe, Removes
<1>10. FreshInv'
  <2>1. /\ PhaseKey' = PhaseKey /\ (Dirty => Dirty') /\ (Arriving <=> Arriving')
        /\ Signing(keys)' = Signing(keys) /\ Signing(status)' = Signing(status)
        /\ Signing(reload.keys)' = Signing(reload.keys)
        BY <1>1, <1>4 DEF PhaseKey, Dirty, Arriving, Signing
  <2> QED BY <1>1, <1>2, <1>4, <2>1
             DEF FreshInv, TableIsFresh, AnswerIsFresh, CardIsFresh, RolloverIsFresh
<1> QED BY <1>7, <1>8, <1>9, <1>10 DEF SafeInv

LEMMA JobEndsSafe ==
    ASSUME DnssecTyped, SafeInv, JobEnds
    PROVE  SafeInv'
<1>1. /\ job \in JobType /\ JobSafe /\ JobShape /\ FreshInv /\ SnapshotInv /\ CarriedInv /\ BoxInv
      /\ job.at \in {"answered", "failed", "declined"}
      BY DEF DnssecTyped, JobTyped, SafeInv, JobEnds
<1>2. /\ UNCHANGED <<keys, made, registrar, served, status, known, ticks, probes, results,
                     capability>>
      /\ UNCHANGED zoneVars /\ UNCHANGED assistantVars
      BY DEF JobEnds, zoneVars, assistantVars
<1>3. /\ reload' = reload \/ (reload'.stage = "asked" /\ reload'.keys.there = {})
      /\ AskStatus => reload'.stage = "asked" /\ reload'.keys.there = {}
      BY DEF JobEnds, AskStatus, NoKeys
<1>4. (Arriving' => Arriving) /\ (Arriving' => reload' = reload)
      BY <1>3 DEF Arriving
<1>5. /\ PhaseKey' = PhaseKey /\ Bearers(status)' = Bearers(status)
      /\ Signing(keys)' = Signing(keys) /\ Signing(status)' = Signing(status)
      /\ Arriving' => Bearers(reload.keys)' = Bearers(reload.keys)
                      /\ Signing(reload.keys)' = Signing(reload.keys)
      BY <1>2, <1>4 DEF PhaseKey, Bearers, Signing
<1>6. SnapshotInv'
      BY <1>1, <1>2, <1>3 DEF SnapshotInv, Older
<1>7. CarriedInv'
      BY <1>1, <1>2, <1>4, <1>5 DEF CarriedInv, Borne
<1>8. /\ job.from # "dialog" => window' = window
      /\ job.from = "dialog" => window' \in {"none", "ds", window}
      BY DEF JobEnds
<1>9. BoxInv'
  <2>1. \A k : Vanished(k) => Vanished(k)'
        BY <1>2, <1>3 DEF Vanished
  <2>2. DsTicked'
        BY <1>1, <1>2, <2>1 DEF BoxInv, DsTicked
  <2>3. (window = "rollover" => window' = "rollover")
        /\ (window' = "disable" => window = "disable")
        BY <1>1, <1>8, JobOrigin
  <2> QED BY <1>1, <1>2, <2>2, <2>3 DEF BoxInv, ServedIfThere
<1>10. \/ job' = [job EXCEPT !.at = "reload"] /\ AskStatus /\ job.from \in {"table", "assistant"}
       \/ job' = NoJob /\ AskStatus /\ job.from = "dialog"
       \/ /\ job' = NoJob /\ reload' = reload /\ job.from # "assistant"
          /\ job.at # "answered" /\ ~(job.at = "failed" /\ CarriedOut.op = "disable")
  <2>1. job.from \in {"table", "dialog", "assistant"}
        /\ (job.from = "table" => CarriedOut.op # "disable")
        BY <1>1, JobOrigin DEF OneKeyOps
  <2> QED BY <2>1 DEF JobEnds, CarriedOut
<1>11. CASE job' = [job EXCEPT !.at = "reload"] /\ AskStatus /\ job.from \in {"table", "assistant"}
  <2>1. /\ job'.at = "reload" /\ job'.from = job.from /\ job'.todo = job.todo
        /\ job'.force = job.force /\ CarriedOut' = CarriedOut /\ window' = window
        /\ reload'.stage = "asked" /\ ~Arriving'
        BY <1>1, <1>3, <1>8, <1>11 DEF JobType, CarriedOut, Arriving
  <2>2. FromTable \/ FromAssistant
        BY <1>1, <1>11 DEF JobShape, FromDialog, NoJob
  <2>3. FromTable' \/ FromAssistant'
        BY <1>5, <2>1, <2>2 DEF FromTable, FromAssistant, AssistantTodo
  <2>4. JobShape'
        BY <1>1, <1>11, <2>1, <2>3 DEF JobShape
  <2>5. JobSafe'
        BY <1>1, <1>2, <1>5, <2>1 DEF JobSafe, SwitchSafe, ServedIfThere
  <2>6. FreshInv'
        BY <1>1, <1>2, <1>5, <1>11, <2>1
           DEF FreshInv, TableIsFresh, AnswerIsFresh, CardIsFresh, RolloverIsFresh
  <2> QED BY <1>6, <1>7, <1>9, <2>4, <2>5, <2>6 DEF SafeInv
<1>12. CASE job' = NoJob /\ AskStatus /\ job.from = "dialog"
  <2>1. JobShape' /\ JobSafe'
        BY <1>12 DEF JobShape, JobSafe, NoJob
  <2>2. window' # "rollover" /\ reload'.stage = "asked" /\ ~Arriving'
        BY <1>1, <1>3, <1>8, <1>12, JobOrigin DEF Arriving
  <2>3. FreshInv'
        BY <1>1, <1>2, <1>5, <1>12, <2>2
           DEF FreshInv, TableIsFresh, AnswerIsFresh, CardIsFresh, RolloverIsFresh
  <2> QED BY <1>6, <1>7, <1>9, <2>1, <2>3 DEF SafeInv
<1>13. CASE /\ job' = NoJob /\ reload' = reload /\ job.from # "assistant"
            /\ job.at # "answered" /\ ~(job.at = "failed" /\ CarriedOut.op = "disable")
  <2>1. JobShape' /\ JobSafe'
        BY <1>13 DEF JobShape, JobSafe, NoJob
  <2>2. ~Dirty /\ (Arriving' <=> Arriving)
        BY <1>1, <1>13 DEF Dirty, JobShape, Arriving
  <2>3. window' # "rollover" /\ (job.from = "table" => reload.stage = "none" /\ ~Arriving)
        /\ job.from \in {"table", "dialog"}
        BY <1>1, <1>8, <1>13, JobOrigin DEF JobShape, Arriving
  <2>4. FreshInv'
        BY <1>1, <1>2, <1>5, <1>13, <2>2, <2>3
           DEF FreshInv, TableIsFresh, AnswerIsFresh, CardIsFresh, RolloverIsFresh
  <2> QED BY <1>6, <1>7, <1>9, <2>1, <2>4 DEF SafeInv
<1> QED BY <1>10, <1>11, <1>12, <1>13

(* Outside the browser: the parent zone, the name servers, the status page. *)

\* What these steps share: the keys and all that the browser holds stay.
BrowserStands == UNCHANGED <<keys, made, status, known, reload, window, ticks, probes, results,
                             job, capability>>

LEMMA StandingStays ==
    ASSUME BrowserStands
    PROVE  /\ PhaseKey' = PhaseKey /\ CarriedOut' = CarriedOut /\ Bearers(status)' = Bearers(status)
           /\ Bearers(reload.keys)' = Bearers(reload.keys) /\ Signing(keys)' = Signing(keys)
           /\ Signing(status)' = Signing(status) /\ Signing(reload.keys)' = Signing(reload.keys)
           /\ (Dirty <=> Dirty') /\ (Arriving <=> Arriving')
           /\ (SnapshotInv => SnapshotInv') /\ (JobShape => JobShape')
<1>1. SnapshotInv => SnapshotInv'
      BY SnapshotUntouched DEF BrowserStands
<1>2. JobShape => JobShape'
      BY ShapeUntouched DEF BrowserStands
<1> QED BY <1>1, <1>2
           DEF BrowserStands, PhaseKey, CarriedOut, Bearers, Signing, Dirty, Arriving

LEMMA PublishSafe ==
    ASSUME DnssecTyped, SafeInv, NEW k \in KeyIds, PublishDs(k)
    PROVE  SafeInv'
<1>1. /\ BrowserStands /\ served' = served /\ registrar' = registrar \cup {k}
      /\ SnapshotInv /\ JobShape /\ JobSafe /\ FreshInv /\ CarriedInv /\ BoxInv
      BY DEF PublishDs, BrowserStands, SafeInv
<1>2. /\ job' = job /\ window' = window /\ known' = known /\ reload' = reload /\ keys' = keys
      /\ made' = made /\ status' = status /\ ticks' = ticks /\ results' = results
      /\ probes' = probes /\ capability' = capability
      BY <1>1 DEF BrowserStands
<1>3. SnapshotInv' /\ JobShape'
      BY <1>1, StandingStays
\* The first DS comes from the dialog, which shows the keys as they are.
<1>4. registrar = {} =>
        /\ window = "ds" /\ job = NoJob /\ ~Arriving
        /\ Signing(status) \subseteq Signing(keys)
        /\ k \in Signing(status) /\ k \in served
  <2> SUFFICES ASSUME registrar = {}
               PROVE  /\ window = "ds" /\ job = NoJob /\ ~Arriving
                      /\ Signing(status) \subseteq Signing(keys)
                      /\ k \in Signing(status) /\ k \in served
      OBVIOUS
  <2>1. /\ window = "ds" /\ known = "yes" /\ reload.stage = "none"
        /\ k \in Signing(status) /\ k \in served
        BY DEF PublishDs, CardTrusted, Loading
  <2>2. job = NoJob
        BY <1>1, <2>1, JobOrigin DEF JobShape
  <2>3. ~Dirty
        BY <2>2 DEF Dirty, NoJob
  <2> QED BY <1>1, <2>1, <2>2, <2>3 DEF FreshInv, TableIsFresh, Arriving
<1>5. window # "disable" /\ (window = "rollover" => registrar # {})
      BY DEF PublishDs
<1>6. CarriedInv'
  <2>1. Borne(status, {})'
        BY <1>1, <1>4, StandingStays DEF CarriedInv, Borne, Bearers
  <2>2. Arriving => Borne(reload.keys, {})'
        BY <1>1, <1>4, StandingStays DEF CarriedInv, Borne
  <2> QED BY <1>1, <2>1, <2>2, StandingStays DEF CarriedInv
<1>7. JobSafe'
  <2>1. job.at # "idle" => registrar # {} /\ CarriedOut.op # "disable"
        BY <1>1, <1>4, <1>5, JobOrigin DEF NoJob, OneKeyOps
  <2>2. ASSUME NEW old, registrar # {}, Borne(status, {old}) PROVE Borne(status, {old})'
        BY <1>1, <2>2, StandingStays DEF Borne
  <2>3. job.from = "assistant" => job.at # "idle"
        BY <1>1 DEF JobShape, NoJob
  <2> QED BY <1>1, <1>2, <2>1, <2>2, <2>3, StandingStays
             DEF JobSafe, SwitchSafe, ServedIfThere, Removes
<1>8. FreshInv'
      BY <1>1, <1>2, <1>4, <1>5, StandingStays
         DEF FreshInv, TableIsFresh, AnswerIsFresh, CardIsFresh, RolloverIsFresh
<1>9. BoxInv'
      BY <1>1, <1>2, <1>5 DEF BoxInv, DsTicked, Vanished, ServedIfThere
<1> QED BY <1>3, <1>6, <1>7, <1>8, <1>9 DEF SafeInv

LEMMA WithdrawSafe ==
    ASSUME DnssecTyped, SafeInv, NEW gone, WithdrawDs(gone)
    PROVE  SafeInv'
<1>1. /\ BrowserStands /\ served' = served /\ registrar' = registrar \ gone
      /\ gone # {} /\ gone \subseteq registrar /\ job = NoJob
      /\ SnapshotInv /\ JobShape /\ JobSafe /\ FreshInv /\ CarriedInv /\ BoxInv
      BY DEF WithdrawDs, BrowserStands, SafeInv
<1>2. /\ job' = job /\ window' = window /\ known' = known /\ reload' = reload /\ keys' = keys
      /\ made' = made /\ status' = status /\ ticks' = ticks /\ results' = results
      /\ probes' = probes /\ capability' = capability
      BY <1>1 DEF BrowserStands
<1>3. SnapshotInv' /\ JobShape' /\ JobSafe'
      BY <1>1, <1>2, StandingStays DEF JobSafe, NoJob
<1>4. registrar' # {} => registrar # {}
      BY <1>1
<1>5. FreshInv'
      BY <1>1, <1>2, <1>4, StandingStays
         DEF FreshInv, TableIsFresh, AnswerIsFresh, CardIsFresh, RolloverIsFresh
<1>6. CASE window = "disable" /\ gone = registrar
  <2>1. registrar' = {} /\ "ds" \notin ticks.set
        BY <1>1, <1>6 DEF BoxInv
  <2>2. CarriedInv'
        BY <2>1 DEF CarriedInv, Borne
  <2>3. BoxInv'
        BY <1>1, <1>2, <2>1 DEF BoxInv, DsTicked, ServedIfThere
  <2> QED BY <1>3, <1>5, <2>2, <2>3 DEF SafeInv
<1>7. CASE window = "rollover" /\ PhaseKey.phase = "old_retired" /\ gone = {PhaseKey.old}
  <2> DEFINE a == PhaseKey.old
             b == PhaseKey.new
  <2>1. /\ a \in Nat /\ b \in Nat /\ a < b /\ status.there = {a, b} /\ Signing(status) = {b}
    <3>1. status \in KeyRing
          BY DEF DnssecTyped, StatusTyped
    <3> QED BY <1>7, <3>1, Phases DEF PhaseKey
  <2>2. Bearers(status) = {b}
        BY <2>1 DEF Bearers, PhaseKey
  <2> HIDE DEF a, b
  <2>3. registrar # {} /\ gone = {a} /\ a # b
        BY <1>1, <1>7, <2>1 DEF a
  <2>4. b \in registrar /\ b \in served /\ b \in Signing(keys)
        BY <1>1, <2>2, <2>3 DEF CarriedInv, Borne
  <2>5. Arriving => b \in Bearers(reload.keys)
        BY <1>1, <1>7, <2>1, <2>3 DEF FreshInv, RolloverIsFresh, Bearers, a
  <2>6. CarriedInv'
        BY <1>1, <2>2, <2>3, <2>4, <2>5, StandingStays DEF CarriedInv, Borne
  <2>7. DsTicked'
    <3> SUFFICES ASSUME "ds" \in ticks.set PROVE DsTicked'
        BY <1>2 DEF DsTicked
    <3>1. DsTicked /\ ticks.key.old \in KeyIds /\ ticks.key.new \in KeyIds
          /\ ticks.key.old < ticks.key.new
          BY <1>1 DEF BoxInv, DsTicked
    <3>2. ticks.key.new = a => Vanished(ticks.key.old)
      <4> SUFFICES ASSUME ticks.key.new = a PROVE Vanished(ticks.key.old)
          OBVIOUS
      <4>1. ticks.key.old \in Nat /\ ticks.key.old >= 1 /\ ticks.key.old < a
            BY <3>1 DEF KeyIds
      <4>2. a \in 1..made /\ made \in Nat
            BY <1>1, <2>1, DnssecAssumption DEF SnapshotInv, DnssecTyped, ServerTyped
      <4>3. ticks.key.old \notin status.there /\ ticks.key.old \in 1..made
            BY <2>1, <4>1, <4>2
      <4>4. a \in status.there
            BY <2>1
      <4>5. ticks.key.old \notin keys.there
            BY <1>1, <4>1, <4>3, <4>4 DEF SnapshotInv, Older
      <4>6. ticks.key.old \notin reload.keys.there
            BY <1>1, <4>1, <4>3, <4>4 DEF SnapshotInv, Older
      <4> QED BY <4>3, <4>5, <4>6 DEF Vanished
    <3>3. ticks.key.new \in registrar' \/ Vanished(ticks.key.old)
          BY <1>1, <2>3, <3>1, <3>2 DEF DsTicked
    <3> QED BY <1>2, <3>1, <3>3 DEF DsTicked, Vanished
  <2>8. BoxInv'
        BY <1>1, <1>2, <1>7, <2>7 DEF BoxInv, ServedIfThere
  <2> QED BY <1>3, <1>5, <2>6, <2>8 DEF SafeInv
<1> QED BY <1>6, <1>7 DEF WithdrawDs

LEMMA PropagateSafe ==
    ASSUME DnssecTyped, SafeInv, Propagate
    PROVE  SafeInv'
<1>1. /\ BrowserStands /\ served \subseteq served' /\ registrar' = registrar
      /\ SnapshotInv /\ JobShape /\ JobSafe /\ FreshInv /\ CarriedInv /\ BoxInv
      BY DEF Propagate, BrowserStands, SafeInv, DnssecTyped, ServerTyped
<1>2. /\ job' = job /\ window' = window /\ known' = known /\ reload' = reload /\ keys' = keys
      /\ made' = made /\ status' = status /\ ticks' = ticks /\ results' = results
      /\ probes' = probes /\ capability' = capability
      BY <1>1 DEF BrowserStands
<1>3. SnapshotInv' /\ JobShape'
      BY <1>1, StandingStays
<1>4. FreshInv'
      BY <1>1, <1>2, StandingStays
         DEF FreshInv, TableIsFresh, AnswerIsFresh, CardIsFresh, RolloverIsFresh
<1>5. CarriedInv'
      BY <1>1, StandingStays DEF CarriedInv, Borne
<1>6. JobSafe'
  <2>1. ASSUME NEW old, Borne(status, {old}) PROVE Borne(status, {old})'
        BY <1>1, <2>1, StandingStays DEF Borne
  <2> QED BY <1>1, <1>2, <2>1, StandingStays DEF JobSafe, SwitchSafe, ServedIfThere, Removes
<1>7. BoxInv'
      BY <1>1, <1>2 DEF BoxInv, DsTicked, Vanished, ServedIfThere
<1> QED BY <1>3, <1>4, <1>5, <1>6, <1>7 DEF SafeInv

(* The whole card.                                                          *)

LEMMA UnforcedInit == DnssecInit => UnforcedInv
<1> SUFFICES ASSUME DnssecInit PROVE SafeInv
    BY DnssecInitType DEF UnforcedInv
<1> DEFINE one == [there |-> {1}, active |-> {1}, published |-> {1}]
<1>1. PICK z \in {NoKeys, one} :
        /\ keys = z /\ registrar = z.there /\ served = z.there /\ status = z
        /\ made = Cardinality(z.there)
        /\ known = "yes" /\ reload = NoReload /\ window = "none"
        /\ ticks = NoTicks /\ probes = {} /\ results = NoResults /\ job = NoJob
      BY DEF DnssecInit
<1>2. z.there \subseteq 1..made /\ (z.there = {} \/ z.there = {1})
      BY <1>1, FS_Singleton, FS_EmptySet DEF NoKeys
<1>3. z.there # {} => z.there = {1} /\ Signing(z) = {1}
      BY <1>1 DEF NoKeys, Signing
<1>4. ~Arriving /\ ~Dirty /\ reload.keys.there = {} /\ reload.stage = "none"
      BY <1>1 DEF Arriving, Dirty, NoReload, NoJob, NoKeys
<1>5. SnapshotInv
      BY <1>1, <1>2, <1>4 DEF SnapshotInv, Older
<1>6. JobShape /\ JobSafe
      BY <1>1 DEF JobShape, JobSafe, NoJob
<1>7. FreshInv
      BY <1>1, <1>4 DEF FreshInv, TableIsFresh, AnswerIsFresh, CardIsFresh, RolloverIsFresh
<1>8. CarriedInv
      BY <1>1, <1>3, <1>4 DEF CarriedInv, Borne, Bearers
<1>9. BoxInv
      BY <1>1 DEF BoxInv, DsTicked, NoTicks, NoResults
<1> QED BY <1>5, <1>6, <1>7, <1>8, <1>9 DEF SafeInv

LEMMA SafeUntouched == SafeInv /\ UNCHANGED dnssecVars => SafeInv'
<1> SUFFICES ASSUME SafeInv, UNCHANGED dnssecVars PROVE SafeInv'
    OBVIOUS
<1>1. /\ UNCHANGED <<keys, made, status, reload>> /\ UNCHANGED <<job, window, status, reload>>
      /\ UNCHANGED <<job, status, zoneVars, capability>>
      /\ UNCHANGED <<known, reload, job, keys, status, registrar, window>>
      /\ UNCHANGED <<registrar, served, keys, status, reload>>
      /\ UNCHANGED <<window, assistantVars, zoneVars, status, reload, capability>>
      BY DEF dnssecVars, zoneVars, assistantVars
<1> QED BY <1>1, SnapshotUntouched, ShapeUntouched, JobSafeUntouched, FreshUntouched,
           CarriedUntouched, BoxUntouched DEF SafeInv

\* A warning that was overridden stays so.
LEMMA ForcedStays == DnssecTyped /\ [DnssecNext]_dnssecVars => (forced => forced')
<1> SUFFICES ASSUME DnssecTyped, [DnssecNext]_dnssecVars, forced PROVE forced'
    OBVIOUS
<1>1. CASE UNCHANGED dnssecVars
      BY <1>1 DEF dnssecVars
<1>2. CASE LoadStatus \/ StatusRead \/ StatusArrives \/ StatusFails
      BY <1>2 DEF LoadStatus, StatusRead, StatusArrives, StatusFails
<1>3. CASE \E w \in {"ds", "enable", "disable", "addKey", "nsec", "rollover"} : OpenDnssec(w)
      BY <1>3 DEF OpenDnssec
<1>4. CASE CloseDnssec \/ TickDisable \/ \E box \in Ticks : TickBox(box)
      BY <1>4 DEF CloseDnssec, TickDisable, TickBox
<1>5. CASE (\E name \in Checks : StartCheck(name)) \/ (\E p \in probes : CheckAnswered(p))
      BY <1>5 DEF StartCheck, CheckAnswered
<1>6. CASE StartRollover \/ SubmitDnssec \/ \E op \in OneKeyOps, k \in KeyIds : TableAction(op, k)
      BY <1>6 DEF StartRollover, SubmitDnssec, TableAction
<1>7. CASE BackendReads \/ BackendWrites \/ NextRequest \/ JobEnds
      BY <1>7 DEF BackendReads, BackendWrites, NextRequest, JobEnds
<1>8. CASE \E yes \in BOOLEAN : AnswerQuestion(yes)
      BY <1>8 DEF AnswerQuestion
<1>9. CASE \/ \E k \in KeyIds : PublishDs(k)
           \/ \E gone \in SUBSET KeyIds : WithdrawDs(gone)
           \/ Propagate \/ OthersChangeKeys
      BY <1>9 DEF PublishDs, WithdrawDs, Propagate, OthersChangeKeys
<1> QED BY <1>1, <1>2, <1>3, <1>4, <1>5, <1>6, <1>7, <1>8, <1>9 DEF DnssecNext

LEMMA SafeStep ==
    ASSUME NobodyDeactivates, DnssecTyped, SafeInv, DnssecNext, ~forced, ~forced'
    PROVE  SafeInv'
<1>1. CASE LoadStatus \/ StatusRead \/ StatusArrives \/ StatusFails
      BY <1>1, LoadSafe, ReadSafe, ArriveSafe, FailSafe
<1>2. CASE CloseDnssec
           \/ \E w \in {"ds", "enable", "disable", "addKey", "nsec", "rollover"} : OpenDnssec(w)
      BY <1>2, OpenSafe
<1>3. CASE TickDisable \/ \E box \in Ticks : TickBox(box)
      BY <1>3, TickDisableSafe, TickSafe
<1>4. CASE (\E name \in Checks : StartCheck(name)) \/ (\E p \in probes : CheckAnswered(p))
      BY <1>4, StartCheckSafe, CheckAnsweredSafe
<1>5. CASE StartRollover \/ SubmitDnssec \/ \E op \in OneKeyOps, k \in KeyIds : TableAction(op, k)
      BY <1>5, RolloverSafe, SubmitSafe, TableSafe
<1>6. CASE BackendReads \/ BackendWrites \/ NextRequest \/ JobEnds
      BY <1>6, BackendReadsSafe, WriteSafe, NextRequestSafe, JobEndsSafe
<1>7. CASE \E yes \in BOOLEAN : AnswerQuestion(yes)
      BY <1>7, DeclineSafe
<1>8. CASE (\E k \in KeyIds : PublishDs(k)) \/ (\E gone \in SUBSET KeyIds : WithdrawDs(gone))
      BY <1>8, PublishSafe, WithdrawSafe
<1>9. CASE Propagate \/ OthersChangeKeys
      BY <1>9, PropagateSafe, OthersSafe
<1> QED BY <1>1, <1>2, <1>3, <1>4, <1>5, <1>6, <1>7, <1>8, <1>9 DEF DnssecNext

LEMMA UnforcedStep ==
    ASSUME NobodyDeactivates
    PROVE  UnforcedInv /\ [DnssecNext]_dnssecVars => UnforcedInv'
<1> SUFFICES ASSUME UnforcedInv, [DnssecNext]_dnssecVars PROVE UnforcedInv'
    OBVIOUS
<1>1. DnssecTyped /\ DnssecTyped' /\ (~forced' => ~forced)
      BY DnssecStep, ForcedStays DEF UnforcedInv
<1>2. ASSUME ~forced' PROVE SafeInv'
  <2>1. SafeInv /\ ~forced
        BY <1>1, <1>2 DEF UnforcedInv
  <2>2. CASE UNCHANGED dnssecVars
        BY <2>1, <2>2, SafeUntouched
  <2>3. CASE DnssecNext
        BY <1>1, <1>2, <2>1, <2>3, SafeStep
  <2> QED BY <2>2, <2>3
<1> QED BY <1>1, <1>2 DEF UnforcedInv

-----------------------------------------------------------------------------
(* The pages side by side                                                   *)

PagesInv ==
    /\ part \in Parts
    /\ SsoInv /\ RollbackInv /\ ZoneInv /\ ZonesInv
    /\ UsersInv /\ BulkInv /\ TokenInv /\ RetentionInv
    /\ FocusInv /\ HistoryInv /\ LogInv /\ HookInv
    /\ SecretTyped /\ DnssecTyped /\ FormatInv

LEMMA PagesInitInv == PagesInit => PagesInv
<1> SUFFICES ASSUME PagesInit PROVE PagesInv
    OBVIOUS
<1>1. /\ part \in Parts /\ SsoInit /\ RollbackInit /\ ZoneInit /\ ZonesInit
      /\ UsersInit /\ BulkInit /\ TokenFormsInit /\ RetentionInit
      /\ FocusInit /\ HistoryInit /\ WebhookLogInit /\ WebhookFormInit
      /\ SecretInit /\ DnssecInit /\ FormatInit
      BY DEF PagesInit
<1>2. SsoInv /\ RollbackInv /\ ZoneInv /\ ZonesInv
      BY <1>1, SsoInitInv, RollbackInitInv, ZoneInitInv, ZonesInitInv
<1>3. UsersInv /\ BulkInv /\ TokenInv /\ RetentionInv
      BY <1>1, UsersInitInv, BulkInitInv, TokenFormsInitInv, RetentionInitInv
<1>4. FocusInv /\ HistoryInv /\ LogInv /\ HookInv
      BY <1>1, FocusInitInv, HistoryInitInv, WebhookLogInitInv, WebhookFormInitInv
<1>5. SecretTyped /\ DnssecTyped /\ FormatInv
      BY <1>1, SecretInitType, DnssecInitType, FormatInitInv
<1> QED BY <1>1, <1>2, <1>3, <1>4, <1>5 DEF PagesInv

\* A step of one page leaves the others as they are: for each of them it is a step of
\* its own or none.
LEMMA PagesStep ==
    ASSUME [PagesNext]_allVars
    PROVE  /\ [SsoNext]_ssoVars /\ [RollbackNext]_rollbackVars
           /\ [ZoneNext]_zoneEditorVars /\ [ZonesNext]_zonesVars
           /\ [UsersNext]_usersVars /\ [BulkNext]_bulkVars
           /\ [TokenFormsNext]_formVars /\ [RetentionNext]_retentionVars
           /\ [FocusNext]_focusVars /\ [HistoryNext]_historyVars
           /\ [WebhookLogNext]_logVars /\ [WebhookFormNext]_webhookFormVars
           /\ [SecretNext]_secretVars /\ [DnssecNext]_dnssecVars
           /\ [FormatNext]_formatVars
           /\ part' = part
<1>1. CASE PagesNext
      BY <1>1 DEF PagesNext
<1>2. CASE UNCHANGED allVars
      BY <1>2 DEF allVars
<1> QED BY <1>1, <1>2

LEMMA PagesNextInv == PagesInv /\ [PagesNext]_allVars => PagesInv'
<1> SUFFICES ASSUME PagesInv, [PagesNext]_allVars PROVE PagesInv'
    OBVIOUS
<1>1. SsoInv' /\ RollbackInv' /\ ZoneInv' /\ ZonesInv'
      BY PagesStep, SsoNextInv, RollbackNextInv, ZoneStep, ZonesStep DEF PagesInv
<1>2. UsersInv' /\ BulkInv' /\ TokenInv' /\ RetentionInv'
      BY PagesStep, UsersStep, BulkStep, TokenFormsStep, RetentionStep DEF PagesInv
<1>3. FocusInv' /\ HistoryInv' /\ LogInv' /\ HookInv'
      BY PagesStep, FocusStep, HistoryStep, WebhookLogStep, WebhookFormStep DEF PagesInv
<1>4. SecretTyped' /\ DnssecTyped' /\ FormatInv'
      BY PagesStep, SecretStepType, DnssecStep, FormatStep DEF PagesInv
<1>5. part' \in Parts
      BY PagesStep DEF PagesInv, Parts
<1> QED BY <1>1, <1>2, <1>3, <1>4, <1>5 DEF PagesInv

LEMMA PagesInvariant == PagesSpec => []PagesInv
BY PagesInitInv, PagesNextInv, PTL DEF PagesSpec

(* Whatever overtakes what, a page shows what became of its own requests:   *)
(* the zone after an own write and what the write reported, the deliveries  *)
(* of the chosen view, the history and its pinned entry, and what failed    *)
(* when a zone was created.                                                 *)

THEOREM PagesShowTheTruth == PagesSpec => []ShownIsTrue
<1>1. PagesInv => ShownIsTrue
      BY LogInvShows, ZonesInvTells DEF PagesInv, ZoneInv, HistoryInv, FocusInv, ShownIsTrue
<1> QED BY <1>1, PagesInvariant, PTL

(* A saved retention is the one on the sheet, and was confirmed if it       *)
(* removes entries; a saved webhook gets exactly the events ticked for it.  *)

THEOREM FormsStoreWhatIsMeant == PagesSpec => []StoredAsMeant
<1>1. PagesInv => StoredAsMeant
      BY RetentionConfirmed, HookInvDelivers
         DEF PagesInv, RetentionInv, RetentionIsMeant, StoredAsMeant
<1> QED BY <1>1, PagesInvariant, PTL

(* Bulk changes remove only records whose removal was in sight, and the     *)
(* editor of an account takes only grants that were unticked, although      *)
(* others change the zone and the account meanwhile.                        *)

THEOREM NothingIsTakenUnseen == PagesSpec => NothingTakenUnseen
<1>1. PagesInv /\ [PagesNext]_allVars => [RemovesOnlySeen /\ TakesOnlyUnticked]_allVars
  <2> SUFFICES ASSUME PagesInv, [PagesNext]_allVars
               PROVE  RemovesOnlySeen /\ TakesOnlyUnticked
      OBVIOUS
  <2>1. RemovesOnlySeen
        BY BulkRemovesSeen DEF PagesInv
  <2>2. TakesOnlyUnticked
        BY PagesStep, UsersTake DEF PagesInv
  <2> QED BY <2>1, <2>2
<1> QED BY <1>1, PagesInvariant, PTL DEF PagesSpec, NothingTakenUnseen

(* A change of a token changes the fields its user touched only, and no     *)
(* order of partial changes by several users leaves an admin grant on a     *)
(* token limited to zones or a revoked secret on an active token.           *)

THEOREM TokensChangeSoundly == PagesSpec => TokenChangesAreSound
<1>1. PagesInv /\ PagesInv' /\ [PagesNext]_allVars
        => [OnlyTouchedFieldsChange /\ TokenIsSound']_formVars
  <2> SUFFICES ASSUME PagesInv, PagesInv', [PagesNext]_allVars
               PROVE  OnlyTouchedFieldsChange /\ TokenIsSound'
      OBVIOUS
  <2>1. OnlyTouchedFieldsChange
        BY PagesStep, OnlyTouched DEF PagesInv
  <2>2. TokenIsSound'
        BY DEF PagesInv, TokenInv
  <2> QED BY <2>1, <2>2
<1> QED BY <1>1, PagesInvariant, PTL DEF PagesSpec, TokenChangesAreSound

(* What the record dialog shows of a content is the text it was made of, or *)
(* cannot be saved as it is: opening a record and saving it unchanged never *)
(* makes another value of it, for texts of any length.                      *)

THEOREM OpeningChangesNothing == PagesSpec => []FormatsRoundTrip
<1>1. PagesInv => FormatsRoundTrip
      BY RoundTrip DEF PagesInv
<1> QED BY <1>1, PagesInvariant, PTL

(* Type correctness of every page, card and form, and of the converters of  *)
(* record values.                                                           *)

THEOREM PagesKeepTypes == PagesSpec => []PagesTypeOK
<1>1. PagesInv => PagesTypeOK
  <2> SUFFICES ASSUME PagesInv PROVE PagesTypeOK
      OBVIOUS
  <2>1. SsoTypeOK /\ ZoneTypeOK /\ BulkTypeOK /\ HistoryTypeOK /\ FocusTypeOK
        BY DEF PagesInv, SsoInv, ZoneInv, BulkInv, HistoryInv, FocusInv
  <2>2. RetentionTypeOK /\ RollbackTypeOK /\ ZonesTypeOK /\ UsersTypeOK
        BY DEF PagesInv, RetentionInv, RollbackInv, ZonesInv, UsersInv
  <2>3. DnssecTypeOK /\ SecretTypeOK /\ TokenFormsTypeOK
        BY DnssecTypedOK, SecretTypedOK, TokenInvType DEF PagesInv
  <2>4. WebhookFormTypeOK /\ WebhookLogTypeOK /\ FormatTypeOK
        BY DEF PagesInv, HookInv, LogInv, FormatInv
  <2> QED BY <2>1, <2>2, <2>3, <2>4 DEF PagesInv, Parts, PagesTypeOK
<1> QED BY <1>1, PagesInvariant, PTL

LEMMA DnssecInvariant == ASSUME NobodyDeactivates PROVE PagesSpec => []UnforcedInv
<1>1. PagesInit => UnforcedInv
      BY UnforcedInit DEF PagesInit
<1>2. UnforcedInv /\ [PagesNext]_allVars => UnforcedInv'
      BY PagesStep, UnforcedStep
<1> QED BY <1>1, <1>2, PTL DEF PagesSpec

(* As long as nobody overrides a warning and no other administrator takes a *)
(* key out of use, a zone with DS records in its parent keeps a key of them *)
(* that signs it and that all its servers serve: through keys that come and *)
(* go while a status is read, answers that come late, a rollover that stops *)
(* between its two requests and a switching off that stops between keys.    *)

THEOREM TheChainHolds == ASSUME NobodyDeactivates PROVE PagesSpec => []ChainOfTrust
<1> QED BY DnssecInvariant, UnforcedHasChain, PTL

LEMMA SecretsInvariant == ASSUME OneSecretAtATime PROVE PagesSpec => []CardInv
<1>1. PagesInit => CardInv
      BY SecretInitCards DEF PagesInit
<1>2. CardInv /\ [PagesNext]_allVars => CardInv'
      BY PagesStep, SecretStepCards
<1> QED BY <1>1, <1>2, PTL DEF PagesSpec

(* A secret the server has made stays on the screen until it is confirmed,  *)
(* on the cards that make one at a time.                                    *)

THEOREM NewSecretsAreShown ==
    ASSUME OneSecretAtATime PROVE PagesSpec => []SecretShownUntilConfirmed
<1> QED BY SecretsInvariant, CardInvShows, PTL

=============================================================================
