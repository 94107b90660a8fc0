--------------------------- MODULE AuditRetention ---------------------------
(***************************************************************************)
(* The dialog that sets how long the audit log is kept                     *)
(* (AuditRetentionModal), while other administrators set it too.  A        *)
(* retention of 0 days keeps everything.                                   *)
(***************************************************************************)
EXTENDS Integers

CONSTANTS Days,             \* the retentions that are allowed, 0 among them
          RetentionOthers   \* bound: settings by other administrators

ASSUME RetentionAssumption == Days \subseteq Nat /\ 0 \in Days /\ RetentionOthers \in Nat

VARIABLES
    days,       \* the retention on the server
    setByOther, \* settings by others so far
    sheet,      \* the dialog: what it loaded, what its field holds
    saving,     \* the save that runs, or Nothing
    agreed      \* observer: the last save, and the question that was confirmed

retentionVars == <<days, setByOther, sheet, saving, agreed>>

Invalid == -1
Nothing == -2

\* Without settings nothing can be saved: the load runs, or it failed.
ClosedSheet == [open |-> FALSE, settings |-> Nothing, value |-> 0, saved |-> FALSE]

RetentionTypeOK ==
    /\ days \in Days /\ setByOther \in 0..RetentionOthers
    /\ sheet \in [open : BOOLEAN, settings : Days \cup {Nothing},
                  value : Days \cup {Invalid}, saved : BOOLEAN]
    /\ saving \in Days \cup {Nothing}
    /\ agreed \in [from : Days, to : Days, asked : BOOLEAN]

RetentionInit ==
    /\ days \in Days /\ setByOther = 0
    /\ sheet = ClosedSheet /\ saving = Nothing
    /\ agreed = [from |-> 0, to |-> 0, asked |-> FALSE]

\* isRetentionShortening: entries that are kept now would be removed.
Shortens(old, new) == new > 0 /\ (old = 0 \/ old > new)

OpenSheet ==
    /\ ~sheet.open
    /\ sheet' = [ClosedSheet EXCEPT !.open = TRUE]
    /\ UNCHANGED <<days, setByOther, saving, agreed>>

SettingsArrive ==
    /\ sheet.open /\ sheet.settings = Nothing
    /\ sheet' = [sheet EXCEPT !.settings = days, !.value = days]
    /\ UNCHANGED <<days, setByOther, saving, agreed>>

CloseSheet ==
    /\ sheet.open /\ saving = Nothing
    /\ sheet' = ClosedSheet
    /\ UNCHANGED <<days, setByOther, saving, agreed>>

\* The field stays usable while a save runs.
Typed(v) == [sheet EXCEPT !.value = v, !.saved = FALSE]

TypeDays(v) ==
    /\ sheet.open /\ sheet.settings # Nothing
    /\ v # sheet.value
    /\ sheet' = Typed(v)
    /\ UNCHANGED <<days, setByOther, saving, agreed>>

\* The button is there for a valid number that differs from the stored one.
\* (Mutant: whatever stands in the field is sent.)
CanSave_any == sheet.settings \notin {Nothing, sheet.value}
CanSave == sheet.value \in Days /\ sheet.settings \notin {Nothing, sheet.value}

\* With the question that a shortening asks.
SaveDays ==
    /\ sheet.open /\ saving = Nothing /\ CanSave
    /\ saving' = sheet.value
    /\ agreed' = [from |-> sheet.settings, to |-> sheet.value,
                  asked |-> Shortens(sheet.settings, sheet.value)]
    /\ sheet' = [sheet EXCEPT !.saved = FALSE]
    /\ UNCHANGED <<days, setByOther>>

\* The answer fills the field, over what was typed meanwhile.
DaysSaved ==
    /\ saving # Nothing
    /\ days' = saving
    /\ sheet' = [sheet EXCEPT !.settings = saving, !.value = saving, !.saved = TRUE]
    /\ saving' = Nothing
    /\ UNCHANGED <<setByOther, agreed>>

DaysRefused ==
    /\ saving # Nothing
    /\ saving' = Nothing
    /\ UNCHANGED <<days, setByOther, sheet, agreed>>

OtherSetsDays(d) ==
    /\ setByOther < RetentionOthers
    /\ setByOther' = setByOther + 1
    /\ days' = d
    /\ UNCHANGED <<sheet, saving, agreed>>

RetentionNext ==
    \/ OpenSheet \/ SettingsArrive \/ CloseSheet
    \/ \E v \in Days \cup {Invalid} : TypeDays(v)
    \/ SaveDays \/ DaysSaved \/ DaysRefused
    \/ \E d \in Days : OtherSetsDays(d)

RetentionSpec == RetentionInit /\ [][RetentionNext]_retentionVars

-----------------------------------------------------------------------------
\* "Saved" stands only beside the retention that was saved: whatever is typed
\* while the save runs, and whatever others set, the field then holds it.
SavedIsWhatIsShown ==
    sheet.saved => sheet.value = sheet.settings /\ agreed.to = sheet.value

\* A save that removes entries the dialog said would be kept, was confirmed:
\* no entry of the age that the former retention kept is older than the new
\* one allows.
RemovalWasConfirmed ==
    LET Keeps(d, age) == d = 0 \/ age <= d
    IN  (\E age \in Days : Keeps(agreed.from, age + 1) /\ ~Keeps(agreed.to, age + 1))
            => agreed.asked

\* What is kept is what the user agreed to and sees: both of these.
RetentionIsMeant == SavedIsWhatIsShown /\ RemovalWasConfirmed

=============================================================================
