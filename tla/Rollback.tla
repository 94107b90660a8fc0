------------------------------ MODULE Rollback ------------------------------
(***************************************************************************)
(* Taking back an entry of a zone's history: the dialog (RollbackModal)    *)
(* and the handler behind it (routers/history.py rollback_change), while   *)
(* others change the same RRsets.  The entry changed every RRset of RRsets *)
(* from "before" to "after"; "other" is any third state.                   *)
(***************************************************************************)
EXTENDS Naturals, FiniteSets

CONSTANTS RRsets,         \* the RRsets the entry changed
          RollbackOthers  \* bound: changes by others

ASSUME RollbackAssumption == RollbackOthers \in Nat

VARIABLES
    live,     \* the state of every RRset on the primary
    othersWrote,  \* changes by others so far
    dialog,   \* the dialog
    rollbackRequest,  \* the request of the dialog: a preview, or the rollback
    written   \* observer: how the last rollback that wrote came about

rollbackVars == <<live, othersWrote, dialog, rollbackRequest, written>>

States == {"before", "after", "other"}
Shown == [RRsets -> States]
NoOverview == [r \in RRsets |-> "before"]

NoRollback == [kind |-> "none", force |-> FALSE, read |-> FALSE, answer |-> "none",
              state |-> NoOverview]
ClosedDialog == [open |-> FALSE, shown |-> FALSE, state |-> NoOverview, force |-> FALSE,
                 message |-> "none"]

RollbackTypeOK ==
    /\ live \in Shown /\ othersWrote \in 0..RollbackOthers
    /\ dialog \in [open : BOOLEAN, shown : BOOLEAN, state : Shown, force : BOOLEAN,
                   message : {"none", "load", "reloaded", "submit"}]
    /\ rollbackRequest \in [kind : {"none", "preview", "rollback"}, force : BOOLEAN,
                    read : BOOLEAN, state : Shown,
                    answer : {"none", "ok", "conflict", "error"}]
    /\ written \in [any : BOOLEAN, over : Shown, state : Shown, ticked : BOOLEAN]

RollbackInit ==
    /\ live \in Shown /\ othersWrote = 0
    /\ dialog = ClosedDialog /\ rollbackRequest = NoRollback
    /\ written = [any |-> FALSE, over |-> NoOverview, state |-> NoOverview, ticked |-> FALSE]

-----------------------------------------------------------------------------
\* plan_rollback: a conflict is a state that is neither the one the entry left
\* nor the one it is to be set back to.
Conflicts(state) == {r \in RRsets : state[r] = "other"}
Writes(state) == {r \in RRsets : state[r] # "before"}

OpenDialog ==
    /\ ~dialog.open
    /\ dialog' = [ClosedDialog EXCEPT !.open = TRUE]
    /\ rollbackRequest' = [NoRollback EXCEPT !.kind = "preview"]
    /\ UNCHANGED <<live, othersWrote, written>>

\* Not while the rollback runs; the answer to a preview is dropped.
CloseDialog ==
    /\ dialog.open /\ rollbackRequest.kind # "rollback"
    /\ dialog' = ClosedDialog /\ rollbackRequest' = NoRollback
    /\ UNCHANGED <<live, othersWrote, written>>

RetryPreview ==
    /\ dialog.open /\ dialog.message = "load" /\ rollbackRequest = NoRollback
    /\ dialog' = [dialog EXCEPT !.message = "none"]
    /\ rollbackRequest' = [NoRollback EXCEPT !.kind = "preview"]
    /\ UNCHANGED <<live, othersWrote, written>>

PreviewRead ==
    /\ rollbackRequest.kind = "preview" /\ ~rollbackRequest.read
    /\ rollbackRequest' = [rollbackRequest EXCEPT !.read = TRUE, !.state = live]
    /\ UNCHANGED <<live, othersWrote, dialog, written>>

PreviewShown ==
    /\ rollbackRequest.kind = "preview" /\ rollbackRequest.read
    /\ dialog' = [dialog EXCEPT !.shown = TRUE, !.state = rollbackRequest.state, !.force = FALSE]
    /\ rollbackRequest' = NoRollback
    /\ UNCHANGED <<live, othersWrote, written>>

PreviewLost ==
    /\ rollbackRequest.kind = "preview"
    /\ dialog' = [dialog EXCEPT !.shown = FALSE, !.message = "load"]
    /\ rollbackRequest' = NoRollback
    /\ UNCHANGED <<live, othersWrote, written>>

-----------------------------------------------------------------------------
\* The buttons.

Usable == dialog.open /\ dialog.shown /\ rollbackRequest = NoRollback

TickForce ==
    /\ Usable /\ Conflicts(dialog.state) # {}
    /\ dialog' = [dialog EXCEPT !.force = ~@]
    /\ UNCHANGED <<live, othersWrote, rollbackRequest, written>>

\* canConfirmRollback.
Confirmable ==
    \/ Writes(dialog.state) = {}
    \/ Conflicts(dialog.state) = {}
    \/ dialog.force

\* (Mutant: the rollback is sent with force whenever it is confirmed.)
SentForce_always == TRUE
SentForce == Conflicts(dialog.state) # {} /\ dialog.force

Confirm ==
    /\ Usable /\ Confirmable
    /\ rollbackRequest' = [NoRollback EXCEPT !.kind = "rollback", !.force = SentForce]
    /\ dialog' = [dialog EXCEPT !.message = "none"]
    /\ UNCHANGED <<live, othersWrote, written>>

\* rollback_change reads the RRsets first; nothing keeps other writers out
\* until it writes.
RollbackRefused(force) == Conflicts(live) # {} /\ ~force

RollbackReads ==
    /\ rollbackRequest.kind = "rollback" /\ ~rollbackRequest.read
    /\ rollbackRequest.answer = "none"
    /\ rollbackRequest' = [rollbackRequest EXCEPT !.read = TRUE, !.state = live,
                     !.answer = IF RollbackRefused(rollbackRequest.force) THEN "conflict"
                                ELSE IF Writes(live) = {} THEN "ok" ELSE @]
    /\ UNCHANGED <<live, othersWrote, dialog, written>>

\* What differed from the state before the entry is set back to it.
RollbackWrites ==
    /\ rollbackRequest.kind = "rollback" /\ rollbackRequest.read /\ rollbackRequest.answer = "none"
    /\ rollbackRequest' = [rollbackRequest EXCEPT !.answer = "ok"]
    /\ live' = [r \in RRsets |-> IF r \in Writes(rollbackRequest.state) THEN "before" ELSE live[r]]
    /\ written' = [any |-> TRUE, over |-> rollbackRequest.state, state |-> dialog.state,
                   ticked |-> dialog.force]
    /\ UNCHANGED <<othersWrote, dialog>>

\* A write the server refuses changes nothing and is told in the dialog.
RollbackError ==
    /\ rollbackRequest.kind = "rollback" /\ rollbackRequest.answer = "none"
    /\ rollbackRequest' = [rollbackRequest EXCEPT !.answer = "error"]
    /\ UNCHANGED <<live, othersWrote, dialog, written>>

\* 409: the preview is loaded again, over the one that is shown.
RollbackAnswered ==
    /\ rollbackRequest.kind = "rollback" /\ rollbackRequest.answer # "none"
    /\ CASE rollbackRequest.answer = "ok" -> dialog' = ClosedDialog /\ rollbackRequest' = NoRollback
         [] rollbackRequest.answer = "error" ->
               dialog' = [dialog EXCEPT !.message = "submit"] /\ rollbackRequest' = NoRollback
         [] rollbackRequest.answer = "conflict" ->
               /\ dialog' = [dialog EXCEPT !.message = "reloaded"]
               /\ rollbackRequest' = [NoRollback EXCEPT !.kind = "preview"]
    /\ UNCHANGED <<live, othersWrote, written>>

OthersWrite(r, s) ==
    /\ othersWrote < RollbackOthers
    /\ othersWrote' = othersWrote + 1
    /\ live' = [live EXCEPT ![r] = s]
    /\ UNCHANGED <<dialog, rollbackRequest, written>>

RollbackNext ==
    \/ OpenDialog \/ CloseDialog \/ RetryPreview
    \/ PreviewRead \/ PreviewShown \/ PreviewLost
    \/ TickForce \/ Confirm
    \/ RollbackReads \/ RollbackWrites \/ RollbackError \/ RollbackAnswered
    \/ \E r \in RRsets, s \in States : OthersWrite(r, s)

RollbackSpec == RollbackInit /\ [][RollbackNext]_rollbackVars

-----------------------------------------------------------------------------
\* A state that the handler read and the entry did not leave is overwritten
\* only if the user ticked the box beside the conflicts of a preview.
OverwriteWasTicked ==
    written.any /\ (\E r \in RRsets : written.over[r] = "other") => written.ticked

=============================================================================
