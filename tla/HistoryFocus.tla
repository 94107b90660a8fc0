---------------------------- MODULE HistoryFocus ----------------------------
(***************************************************************************)
(* The history of a zone as a detail view (ZoneHistoryPanel): the entry    *)
(* named in the address (?entry=) is fetched and pinned above the list,    *)
(* entries that were cut are fetched whole, and any entry may be taken     *)
(* back.  Only the newest request for the pinned entry counts (focusSeq).  *)
(***************************************************************************)
EXTENDS Naturals

CONSTANT FocusEntries   \* entries of the zone's history

VARIABLES
    address,  \* focusEntryId: the entry the address names, or 0
    pinned,   \* focused: the entry that is shown pinned
    fetch,    \* the entry of the newest request for it
    failed,   \* focusError
    undo,     \* the dialog that takes an entry back
    whole,    \* fullEntries: the entries held whole
    wanted    \* the entries that are being fetched whole

focusVars == <<address, pinned, fetch, failed, undo, whole, wanted>>

NoEntry == "none"
EntryOrNone == FocusEntries \cup {NoEntry}
ClosedUndo == [entry |-> NoEntry, sent |-> FALSE, pinned |-> NoEntry]

FocusTypeOK ==
    /\ address \in EntryOrNone /\ pinned \in EntryOrNone /\ fetch \in EntryOrNone
    /\ failed \in BOOLEAN
    /\ undo \in [entry : EntryOrNone, sent : BOOLEAN, pinned : EntryOrNone]
    /\ whole \subseteq FocusEntries /\ wanted \subseteq FocusEntries

\* The panel opens at an address; the effect fetches what it names.
FocusInit ==
    /\ address \in EntryOrNone
    /\ pinned = NoEntry /\ failed = FALSE
    /\ fetch = address
    /\ undo = ClosedUndo
    /\ whole = {} /\ wanted = {}

\* loadFocus: requests before this one are forgotten, what is pinned stays.
LoadFocus(e) == fetch' = e /\ failed' = FALSE

-----------------------------------------------------------------------------
\* The address and the pinned entry.

\* Without an entry in the address nothing is pinned, and a request that
\* still runs is forgotten.
Unpin == pinned' = NoEntry /\ failed' = FALSE /\ fetch' = NoEntry

\* The button beside the pinned entry, or beside the error, takes it out of
\* the address; the dialog covers it.  Every other address with an entry
\* opens the panel anew.
ClearFocus ==
    /\ undo.entry = NoEntry
    /\ address # NoEntry /\ (pinned # NoEntry \/ failed)
    /\ address' = NoEntry
    /\ Unpin
    /\ UNCHANGED <<undo, whole, wanted>>

FocusArrives ==
    /\ fetch # NoEntry
    /\ pinned' = fetch /\ fetch' = NoEntry
    /\ UNCHANGED <<address, failed, undo, whole, wanted>>

FocusFails ==
    /\ fetch # NoEntry
    /\ pinned' = NoEntry /\ fetch' = NoEntry /\ failed' = TRUE
    /\ UNCHANGED <<address, undo, whole, wanted>>

-----------------------------------------------------------------------------
\* Entries fetched whole.

FocusLoadAll(e) ==
    /\ e \notin whole \cup wanted /\ undo.entry = NoEntry
    /\ wanted' = wanted \cup {e}
    /\ UNCHANGED <<address, pinned, fetch, failed, undo, whole>>

AllAnswered(e) ==
    /\ e \in wanted
    /\ wanted' = wanted \ {e}
    /\ whole' \in {whole, whole \cup {e}}
    /\ UNCHANGED <<address, pinned, fetch, failed, undo>>

-----------------------------------------------------------------------------
\* Taking an entry back.  The handler of the dialog is the one of the render
\* in which the button was pressed, and so is the pinned entry it knows.

AskUndo(e) ==
    /\ undo.entry = NoEntry
    /\ undo' = [ClosedUndo EXCEPT !.entry = e]
    /\ UNCHANGED <<address, pinned, fetch, failed, whole, wanted>>

LeaveUndo ==
    /\ undo.entry # NoEntry /\ ~undo.sent
    /\ undo' = ClosedUndo
    /\ UNCHANGED <<address, pinned, fetch, failed, whole, wanted>>

ConfirmUndo ==
    /\ undo.entry # NoEntry /\ ~undo.sent
    /\ undo' = [undo EXCEPT !.sent = TRUE, !.pinned = pinned]
    /\ UNCHANGED <<address, pinned, fetch, failed, whole, wanted>>

UndoRefused ==
    /\ undo.sent
    /\ undo' = [undo EXCEPT !.sent = FALSE]
    /\ UNCHANGED <<address, pinned, fetch, failed, whole, wanted>>

\* handleRollbackDone: the list is loaded again, and so is the pinned entry.
UndoDone ==
    /\ undo.sent
    /\ undo' = ClosedUndo
    /\ whole' = {}
    /\ IF undo.pinned # NoEntry THEN LoadFocus(undo.pinned)
       ELSE UNCHANGED <<fetch, failed>>
    /\ UNCHANGED <<address, pinned, wanted>>

FocusNext ==
    \/ \E e \in FocusEntries : FocusLoadAll(e) \/ AllAnswered(e) \/ AskUndo(e)
    \/ ClearFocus \/ FocusArrives \/ FocusFails
    \/ LeaveUndo \/ ConfirmUndo \/ UndoRefused \/ UndoDone

FocusSpec == FocusInit /\ [][FocusNext]_focusVars

-----------------------------------------------------------------------------
\* What ZoneHistoryPanel.jsx:265 says: "Auswahl folgt dem URL-Parameter
\* ?entry=".  At rest and without an error the pinned entry is the one the
\* address names, also when it was fetched again after an entry was taken
\* back.
FocusFollowsAddress == fetch = NoEntry /\ ~failed => pinned = address

=============================================================================
