------------------------------ MODULE ZoneEditor ------------------------------
(***************************************************************************)
(* The page of one zone (ZoneDetailPage, useZoneData, RecordFormModal and  *)
(* the bin of RecordsTable) against a zone that others change too.  The    *)
(* zone is reduced to the values of one RRset.  What the page shows comes  *)
(* from loads that overlap and answer in any order; a load that is not     *)
(* silent replaces the whole page by a spinner, which unmounts the record  *)
(* dialog, while its request goes on.                                      *)
(***************************************************************************)
EXTENDS Naturals, Sequences, FiniteSets

CONSTANTS Vals,        \* values the RRset may have
          LoadBound,   \* bound: loads running at a time
          ZoneOthers   \* bound: changes by others

ASSUME ZoneAssumption == LoadBound \in Nat \ {0} /\ ZoneOthers \in Nat

VARIABLES
    zone,      \* the values of the RRset in PowerDNS
    others,    \* changes by others so far
    page,      \* records, loading, mayEdit; own, failed: observers, see Own
    banner,    \* the banners: error (one), warning (texts one after the other)
    told,      \* observer: outcomes of the last write the user has not closed
    zoneLoads,     \* running loads, in the order they were started
    current,   \* is the load started last still running?
    form,      \* the record dialog
    writing,    \* the request of a record dialog, running
    deleting   \* the value being deleted with its bin

zoneEditorVars == <<zone, others, page, banner, told, zoneLoads, current, form, writing, deleting>>

NoForm == [open |-> FALSE, edits |-> {}, typed |-> {}, fit |-> TRUE]
NoSave == [kind |-> "none", old |-> {}, new |-> {}]

ZoneTypeOK ==
    /\ zone \subseteq Vals /\ others \in 0..ZoneOthers
    /\ page \in [records : SUBSET Vals, loading : BOOLEAN, mayEdit : BOOLEAN,
                 failed : BOOLEAN, own : BOOLEAN]
    /\ banner \in [error : {"none", "load", "write", "peer"},
                   warning : SUBSET {"unloaded", "ptr"}]
    /\ told \subseteq {"peer", "unloaded", "ptr"}
    /\ \A i \in DOMAIN zoneLoads : zoneLoads[i] \in
          [silent : BOOLEAN, read : BOOLEAN, got : SUBSET Vals, own : BOOLEAN]
    /\ Len(zoneLoads) <= LoadBound /\ current \in BOOLEAN
    /\ form \in [open : BOOLEAN, edits : SUBSET Vals, typed : SUBSET Vals, fit : BOOLEAN]
    /\ writing \in [kind : {"none", "create", "update"},
                   old : SUBSET Vals, new : SUBSET Vals]
    /\ deleting \subseteq Vals

NewLoad(silent) == [silent |-> silent, read |-> FALSE, got |-> {}, own |-> TRUE]

\* The first load starts with the page; mayEdit is canEdit: the right on the
\* zone and the server's allow_writes.
ZoneInit ==
    /\ zone \in SUBSET Vals /\ others = 0
    /\ page \in [records : {{}}, loading : {TRUE}, mayEdit : BOOLEAN,
                 failed : {FALSE}, own : {FALSE}]
    /\ banner = [error |-> "none", warning |-> {}] /\ told = {}
    /\ zoneLoads = <<NewLoad(FALSE)>> /\ current = TRUE
    /\ form = NoForm /\ writing = NoSave /\ deleting = {}

-----------------------------------------------------------------------------
\* Loads.

\* loadZone after a write of this page: what was read before it is old.
\* A load that is not silent unmounts what is on the page.
Own(silent) ==
    /\ Len(zoneLoads) < LoadBound
    /\ zoneLoads' = Append([i \in DOMAIN zoneLoads |-> [zoneLoads[i] EXCEPT !.own = FALSE]],
                       NewLoad(silent))
    /\ current' = TRUE

\* The page after a write: loading, and nothing shown includes the write yet.
Reloading(silent) ==
    [page EXCEPT !.own = FALSE, !.loading = @ \/ ~silent]

\* A spinner unmounts the dialog: mounted again it starts from the record it
\* was opened with.
FreshForm == [form EXCEPT !.typed = form.edits, !.fit = TRUE]

\* setError: one slot, the newer message stands.
Complain(what) ==
    /\ banner' = [banner EXCEPT !.error = what]
    /\ told' = told \ {"peer"}

\* What a write reports: of the peers (saved, failed, not loaded) and of the PTRs.
Outcomes == [peers : {"saved", "error", "unloaded"}, ptr : {"fine", "problem"}]

\* reportFanout, then notifyExtensions or applyPtrMessages, which add to the
\* warning.  (Mutant: the extensions are told first.)
Warning_last(out) == IF out.peers = "unloaded" THEN {"unloaded"} ELSE {}
Warning(out) == (IF out.peers = "unloaded" THEN {"unloaded"} ELSE {})
                \cup (IF out.ptr = "problem" THEN {"ptr"} ELSE {})

Report(out) ==
    /\ banner' = [error |-> IF out.peers = "error" THEN "peer" ELSE banner.error,
                  warning |-> Warning(out)]
    /\ told' = {w \in {"peer", "unloaded", "ptr"} :
                   \/ w = "peer" /\ out.peers = "error"
                   \/ w = "unloaded" /\ out.peers = "unloaded"
                   \/ w = "ptr" /\ out.ptr = "problem"}

CloseBanner(slot) ==
    /\ banner' = IF slot = "error" THEN [banner EXCEPT !.error = "none"]
                 ELSE [banner EXCEPT !.warning = {}]
    /\ told' = told \ (IF slot = "error" THEN {"peer"} ELSE {"unloaded", "ptr"})
    /\ banner' # banner
    /\ UNCHANGED <<zone, others, page, zoneLoads, current, form, writing, deleting>>

ServerReads(i) ==
    /\ ~zoneLoads[i].read
    /\ zoneLoads' = [zoneLoads EXCEPT ![i].read = TRUE, ![i].got = zone]
    /\ UNCHANGED <<zone, others, page, banner, told, current, form, writing, deleting>>

WithoutRRset(s, i) == SubSeq(s, 1, i - 1) \o SubSeq(s, i + 1, Len(s))

\* seq === loadSeqRef.current.
Newest(i) == current /\ i = Len(zoneLoads)

LoadArrives(i) ==
    /\ zoneLoads[i].read
    /\ zoneLoads' = WithoutRRset(zoneLoads, i)
    /\ current' = (current /\ i # Len(zoneLoads))
    /\ IF Newest(i)
       THEN /\ page' = [page EXCEPT !.records = zoneLoads[i].got, !.loading = FALSE,
                                    !.failed = FALSE, !.own = zoneLoads[i].own]
       ELSE UNCHANGED page
    /\ UNCHANGED <<zone, others, banner, told, form, writing, deleting>>

\* A failed load keeps the records that are shown.  A load that succeeds does
\* not take away a message.
LoadFails(i) ==
    /\ zoneLoads' = WithoutRRset(zoneLoads, i)
    /\ current' = (current /\ i # Len(zoneLoads))
    /\ IF Newest(i)
       THEN /\ page' = [page EXCEPT !.loading = FALSE, !.failed = TRUE]
            /\ Complain("load")
       ELSE UNCHANGED <<page, banner, told>>
    /\ UNCHANGED <<zone, others, form, writing, deleting>>

-----------------------------------------------------------------------------
\* The record dialog.  Adding and cloning send no old value.

Mounted == ~page.loading
Idle == Mounted /\ page.mayEdit

OpenForm(old) ==
    /\ Idle /\ ~form.open
    /\ old = {} \/ \E v \in page.records : old = {v}
    /\ form' = [open |-> TRUE, edits |-> old, typed |-> old, fit |-> TRUE]
    /\ UNCHANGED <<zone, others, page, banner, told, zoneLoads, current, writing, deleting>>

\* Every field but the type: the value, and whether name, TTL, fields and
\* extensions are in order now.
TypeValue(v, fit) ==
    /\ Mounted /\ form.open
    /\ form' = [form EXCEPT !.typed = {v}, !.fit = fit]
    /\ UNCHANGED <<zone, others, page, banner, told, zoneLoads, current, writing, deleting>>

\* Several values at once, for a new entry only.
AddValue(v) ==
    /\ Mounted /\ form.open /\ form.edits = {}
    /\ form' = [form EXCEPT !.typed = @ \cup {v}]
    /\ UNCHANGED <<zone, others, page, banner, told, zoneLoads, current, writing, deleting>>

\* Another type, or a quick template, starts the values of a new entry again.
ChangeType(values) ==
    /\ Mounted /\ form.open /\ form.edits = {}
    /\ form' = [form EXCEPT !.typed = values, !.fit = TRUE]
    /\ UNCHANGED <<zone, others, page, banner, told, zoneLoads, current, writing, deleting>>

CloseForm ==
    /\ Mounted /\ form.open /\ writing = NoSave
    /\ form' = NoForm
    /\ UNCHANGED <<zone, others, page, banner, told, zoneLoads, current, writing, deleting>>

\* handleAddRecord sends nothing with a field that is not in order, nor a new
\* value that is among the records shown.
Savable == form.fit /\ form.typed # {} /\ (form.edits = {} => form.typed \cap page.records = {})

SubmitForm ==
    /\ Idle /\ form.open /\ writing = NoSave /\ Savable
    /\ writing' = [kind |-> IF form.edits = {} THEN "create" ELSE "update",
                  old |-> form.edits, new |-> form.typed]
    /\ UNCHANGED <<zone, others, page, banner, told, zoneLoads, current, form, deleting>>

\* update_builder replaces the old value or, if it is gone, changes nothing.
Saved == IF writing.kind = "create" THEN zone \cup writing.new
         ELSE IF writing.old \subseteq zone THEN (zone \ writing.old) \cup writing.new
         ELSE zone

SaveSucceeds(out) ==
    /\ writing # NoSave
    /\ Report(out)
    /\ zone' = Saved
    /\ writing' = NoSave
    /\ form' = NoForm
    /\ Own(FALSE) /\ page' = Reloading(FALSE)
    /\ UNCHANGED <<others, deleting>>

SaveFails ==
    /\ writing # NoSave
    /\ writing' = NoSave
    /\ UNCHANGED <<zone, others, page, banner, told, zoneLoads, current, form, deleting>>

-----------------------------------------------------------------------------
\* The bin of a row, after the question.

Delete(v) ==
    /\ Idle /\ ~form.open /\ deleting = {} /\ v \in page.records
    /\ deleting' = {v}
    /\ UNCHANGED <<zone, others, page, banner, told, zoneLoads, current, form, writing>>

DeleteSucceeds(out) ==
    /\ deleting # {}
    /\ Report(out)
    /\ zone' = zone \ deleting
    /\ deleting' = {}
    /\ Own(FALSE) /\ page' = Reloading(FALSE)
    /\ form' = FreshForm
    /\ UNCHANGED <<others, writing>>

DeleteFails ==
    /\ deleting # {}
    /\ deleting' = {}
    /\ Complain("write")
    /\ UNCHANGED <<zone, others, page, zoneLoads, current, form, writing>>

OthersChange(v) ==
    /\ others < ZoneOthers
    /\ others' = others + 1
    /\ zone' = IF v \in zone THEN zone \ {v} ELSE zone \cup {v}
    /\ UNCHANGED <<page, banner, told, zoneLoads, current, form, writing, deleting>>

ZoneNext ==
    \/ \E i \in DOMAIN zoneLoads : ServerReads(i) \/ LoadArrives(i) \/ LoadFails(i)
    \/ \E v \in Vals : OpenForm({v}) \/ AddValue(v) \/ ChangeType({v}) \/ Delete(v) \/ OthersChange(v)
    \/ \E v \in Vals, fit \in BOOLEAN : TypeValue(v, fit)
    \/ OpenForm({}) \/ ChangeType({}) \/ CloseForm \/ SubmitForm \/ SaveFails \/ DeleteFails
    \/ \E out \in Outcomes : SaveSucceeds(out) \/ DeleteSucceeds(out)
    \/ \E slot \in {"error", "warning"} : CloseBanner(slot)

ZoneSpec == ZoneInit /\ [][ZoneNext]_zoneEditorVars

-----------------------------------------------------------------------------
\* After a change of its own the page does not fall back to what it had read
\* before: with no newer load running and none failed, what is shown was
\* read after the page's last reported write.
OwnWriteIsShown == current \/ page.failed \/ page.own

\* What a write reported about peers and PTRs stays on the page until the user
\* closes it, the next write reports, or (the red slot) a newer error comes.
OutcomeIsShown == told \subseteq banner.warning \cup {banner.error}

\* The page tells the truth about its own writes: both of these.
OwnWritesAreTold == OwnWriteIsShown /\ OutcomeIsShown

===============================================================================
