------------------------------ MODULE BulkEditor ------------------------------
(***************************************************************************)
(* The selection of records and the bulk editor of a zone (RecordsTable,   *)
(* BulkActionBar, BulkEditorModal, BulkPreviewView, bulkModel): from the   *)
(* records shown, a preview computed by the server, a tick for what it     *)
(* removes, and an apply that the server checks against the zone again,    *)
(* while others change the zone.  The zone is reduced to the values of     *)
(* one RRset; a request of the editor is one action when nothing the user  *)
(* does in between can change its outcome.                                 *)
(***************************************************************************)
EXTENDS Naturals, FiniteSets

CONSTANTS BulkVals,    \* values the RRset may have
          BulkOthers   \* bound: changes by others

ASSUME BulkAssumption == BulkOthers \in Nat

VARIABLES
    rrset,     \* the values of the RRset in PowerDNS
    foreign,   \* changes by others so far
    records,   \* the values the page has loaded
    filter,    \* those the filter of the table lets through
    selected,  \* bulk.selected
    opened,    \* bulk.modal: what the editor was opened with
    modal,     \* the state of the editor itself
    preview,   \* a running preview: who asked, and the values asked with
    seen       \* observer: removals shown when the user last ticked the box

bulkVars == <<rrset, foreign, records, filter, selected, opened, modal, preview, seen>>

\* A plan: what it was computed from, what it leaves, whether it changes anything.
NoPlan == [expected |-> {}, result |-> {}, changes |-> FALSE]
NotOpened == [step |-> "closed", flow |-> "text", values |-> {}, sync |-> FALSE,
              plan |-> NoPlan]
NoPreview == [from |-> "none", flow |-> "text", values |-> {}]

\* What a mounted editor starts with.
Mount(o) == [step |-> o.step, values |-> o.values, sync |-> o.sync, plan |-> o.plan,
             tick |-> FALSE, busy |-> FALSE, again |-> FALSE, issues |-> FALSE]

Plans == [expected : SUBSET BulkVals, result : SUBSET BulkVals, changes : BOOLEAN]
Flows == {"text", "delete", "flag", "ttl"}

BulkTypeOK ==
    /\ rrset \subseteq BulkVals /\ records \subseteq BulkVals /\ filter \subseteq BulkVals
    /\ foreign \in 0..BulkOthers
    /\ selected \subseteq BulkVals /\ seen \subseteq BulkVals
    /\ opened \in [step : {"closed", "text", "preview"}, flow : Flows,
                   values : SUBSET BulkVals, sync : BOOLEAN, plan : Plans]
    /\ modal \in [step : {"closed", "text", "preview"}, values : SUBSET BulkVals,
                  sync : BOOLEAN, plan : Plans,
                  tick : BOOLEAN, busy : BOOLEAN, again : BOOLEAN, issues : BOOLEAN]
    /\ preview \in [from : {"none", "bar", "modal"}, flow : Flows, values : SUBSET BulkVals]

BulkInit ==
    /\ rrset \in SUBSET BulkVals /\ records = rrset /\ filter = BulkVals /\ foreign = 0
    /\ selected = {} /\ opened = NotOpened /\ modal = Mount(NotOpened)
    /\ preview = NoPreview /\ seen = {}

\* A load of the page reduces the selection to what exists.  One that is not
\* silent (a deletion by the bin that ends while the editor is open) shows the
\* spinner: the table starts without a filter, the editor is mounted again from
\* what it was opened with, and the
\* answer it was waiting for finds nobody.
Reload(silent) ==
    /\ records' = rrset
    /\ selected' = selected \cap rrset
    /\ IF silent THEN UNCHANGED <<modal, preview, filter>>
       ELSE /\ modal' = Mount(opened)
            /\ filter' = BulkVals
            /\ preview' = IF preview.from = "modal" THEN NoPreview ELSE preview
    /\ UNCHANGED <<rrset, foreign, opened, seen>>

OthersEdit(v) ==
    /\ foreign < BulkOthers
    /\ foreign' = foreign + 1
    /\ rrset' = IF v \in rrset THEN rrset \ {v} ELSE rrset \cup {v}
    /\ UNCHANGED <<records, filter, selected, opened, modal, preview, seen>>

-----------------------------------------------------------------------------
\* The table and its bar, while no editor covers them.

Closed == modal.step = "closed"

SetFilter(f) ==
    /\ Closed
    /\ filter' = f
    /\ UNCHANGED <<rrset, foreign, records, selected, opened, modal, preview, seen>>

\* Records the filter hides stay selected.
Visible == records \cap filter

Toggle(v) ==
    /\ Closed /\ preview.from # "bar" /\ v \in Visible
    /\ selected' = IF v \in selected THEN selected \ {v} ELSE selected \cup {v}
    /\ UNCHANGED <<rrset, foreign, records, filter, opened, modal, preview, seen>>

\* The box in the head of a table: all the rows shown, or none of them.
ToggleAll(on) ==
    /\ Closed /\ Visible # {}
    /\ selected' = IF on THEN selected \cup Visible ELSE selected \ Visible
    /\ UNCHANGED <<rrset, foreign, records, filter, opened, modal, preview, seen>>

Open(o) == opened' = o /\ modal' = Mount(o)

\* The bar is there for a selection; its buttons wait for its preview.
BarUsable == Closed /\ selected # {} /\ preview = NoPreview

ClearSelection ==
    /\ BarUsable
    /\ selected' = {}
    /\ UNCHANGED <<rrset, foreign, records, filter, opened, modal, preview, seen>>

\* The text editor: empty and merging from the header, also while the bar
\* waits for its preview; from the bar with the RRsets of the selection, whole,
\* replacing what is there.
OpenText(filled) ==
    /\ Closed
    /\ filled => BarUsable
    /\ Open([NotOpened EXCEPT !.step = "text", !.sync = filled,
                              !.values = IF filled THEN records ELSE {}])
    /\ UNCHANGED <<rrset, foreign, records, filter, selected, preview, seen>>

\* The bar asks what deleting, disabling or enabling the selection would do.
AskFromBar(flow) ==
    /\ BarUsable
    /\ preview' = [from |-> "bar", flow |-> flow, values |-> selected]
    /\ UNCHANGED <<rrset, foreign, records, filter, selected, opened, modal, seen>>

\* The same by the dialog that sets the TTL of whole RRsets; it stays until the
\* preview arrives, over a bar that is busy as well.
AskTtl == AskFromBar("ttl")

-----------------------------------------------------------------------------
\* The editor.

EditText(t) ==
    /\ modal.step = "text" /\ ~modal.busy
    /\ modal' = [modal EXCEPT !.values = t]
    /\ UNCHANGED <<rrset, foreign, records, filter, selected, opened, preview, seen>>

LoadAll ==
    /\ modal.step = "text" /\ ~modal.busy
    /\ modal' = [modal EXCEPT !.values = records, !.sync = TRUE]
    /\ UNCHANGED <<rrset, foreign, records, filter, selected, opened, preview, seen>>

\* sendPreview: for a text, or with the last request again after a conflict.
AskPreview ==
    /\ preview = NoPreview /\ ~modal.busy
    /\ \/ modal.step = "text" /\ modal.values # {}
       \/ modal.step = "preview" /\ modal.again
    /\ modal' = [modal EXCEPT !.busy = TRUE, !.again = FALSE, !.issues = FALSE]
    /\ preview' = [from |-> "modal", flow |-> opened.flow, values |-> modal.values]
    /\ UNCHANGED <<rrset, foreign, records, filter, selected, opened, seen>>

\* What the server plans from the RRset as it is now.
Result(flow, sync, vals) ==
    CASE flow = "delete" -> rrset \ vals
      [] flow \in {"flag", "ttl"} -> rrset
      [] flow = "text" /\ sync -> vals
      [] OTHER -> rrset \cup vals

Planned(flow, sync, vals) ==
    LET result == Result(flow, sync, vals)
    IN  [expected |-> rrset, result |-> result,
         changes |-> result # rrset \/ (flow \in {"flag", "ttl"} /\ vals \cap rrset # {})]

\* The preview of the bar opens an editor, whatever is open by then.
BarPreviewArrives ==
    /\ preview.from = "bar"
    /\ Open([step |-> "preview", flow |-> preview.flow, values |-> preview.values,
             sync |-> FALSE, plan |-> Planned(preview.flow, FALSE, preview.values)])
    /\ preview' = NoPreview
    /\ UNCHANGED <<rrset, foreign, records, filter, selected, seen>>

\* A new preview has to be confirmed anew.
TickAfter == FALSE

PreviewArrives ==
    /\ preview.from = "modal"
    /\ modal' = [modal EXCEPT
                   !.step = "preview", !.tick = TickAfter, !.busy = FALSE,
                   !.plan = Planned(opened.flow, modal.sync, preview.values)]
    /\ preview' = NoPreview
    /\ UNCHANGED <<rrset, foreign, records, filter, selected, opened, seen>>

\* Errors in lines of the text: back to the text, without a plan.
LinesRefused ==
    /\ preview.from = "modal" /\ opened.flow = "text"
    /\ modal' = [modal EXCEPT !.step = "text", !.plan = NoPlan, !.busy = FALSE]
    /\ preview' = NoPreview
    /\ UNCHANGED <<rrset, foreign, records, filter, selected, opened, seen>>

PreviewFails ==
    /\ preview # NoPreview
    /\ modal' = [modal EXCEPT !.busy = @ /\ preview.from = "bar"]
    /\ preview' = NoPreview
    /\ UNCHANGED <<rrset, foreign, records, filter, selected, opened, seen>>

\* BulkPreviewView: the removals shown, and the box under them.
Removals == modal.plan.expected \ modal.plan.result

Tick ==
    /\ modal.step = "preview" /\ Removals # {}
    /\ modal' = [modal EXCEPT !.tick = ~@]
    /\ seen' = IF modal.tick THEN {} ELSE Removals
    /\ UNCHANGED <<rrset, foreign, records, filter, selected, opened, preview>>

Back ==
    /\ modal.step = "preview" /\ opened.flow = "text" /\ ~modal.busy
    /\ modal' = [modal EXCEPT !.step = "text", !.again = FALSE, !.issues = FALSE]
    /\ UNCHANGED <<rrset, foreign, records, filter, selected, opened, preview, seen>>

CloseEditor ==
    /\ ~Closed /\ ~modal.busy
    /\ Open(NotOpened)
    /\ UNCHANGED <<rrset, foreign, records, filter, selected, preview, seen>>

CanApply ==
    /\ modal.step = "preview" /\ ~modal.busy /\ ~modal.issues
    /\ modal.plan.changes
    /\ Removals # {} => modal.tick

\* POST /bulk compares the fingerprints of the preview with the zone first.
Expected == rrset = modal.plan.expected

\* The answer may be lost after the change was made: then the editor stays.
Apply(lost) ==
    /\ CanApply /\ Expected
    /\ rrset' = modal.plan.result
    /\ IF lost THEN UNCHANGED <<opened, modal, selected>>
               ELSE Open(NotOpened) /\ selected' = {}
    /\ UNCHANGED <<foreign, records, filter, preview, seen>>

\* 422: the problems are listed, and nothing more can be applied here.
ApplyRefused ==
    /\ CanApply
    /\ modal' = [modal EXCEPT !.issues = TRUE]
    /\ UNCHANGED <<rrset, foreign, records, filter, selected, opened, preview, seen>>

\* 409: the preview has to be asked for again.
Conflict ==
    /\ CanApply /\ ~Expected
    /\ modal' = [modal EXCEPT !.again = TRUE]
    /\ UNCHANGED <<rrset, foreign, records, filter, selected, opened, preview, seen>>

BulkNext ==
    \/ \E b \in BOOLEAN : Reload(b) \/ OpenText(b) \/ Apply(b) \/ ToggleAll(b)
    \/ \E v \in BulkVals : Toggle(v) \/ OthersEdit(v)
    \/ \E f \in {BulkVals} \cup {{v} : v \in BulkVals} : SetFilter(f)
    \/ \E t \in SUBSET BulkVals : EditText(t)
    \/ \E flow \in {"delete", "flag"} : AskFromBar(flow)
    \/ AskTtl \/ ClearSelection \/ LinesRefused \/ ApplyRefused
    \/ AskPreview \/ LoadAll \/ Tick \/ Back \/ CloseEditor
    \/ BarPreviewArrives \/ PreviewArrives \/ PreviewFails \/ Conflict

BulkSpec == BulkInit /\ [][BulkNext]_bulkVars

-----------------------------------------------------------------------------
\* The bulk editor removes only values whose removal the user saw in a
\* preview and confirmed, whatever others changed in between.
RemovesOnlySeen == (\E b \in BOOLEAN : Apply(b)) => (rrset \ rrset') \subseteq seen

===============================================================================
