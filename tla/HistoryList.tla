----------------------------- MODULE HistoryList -----------------------------
(***************************************************************************)
(* The two lists of audit entries: the history of a zone                   *)
(* (ZoneHistoryPanel) and the audit log of the panel (AuditLogPage).  One  *)
(* search field stands for the filters, a page holds one entry.  The       *)
(* number of matching entries changes while the list is read: entries are  *)
(* written, and the retention removes them.  A new request aborts the one  *)
(* before it.                                                              *)
(***************************************************************************)
EXTENDS Naturals

CONSTANT EntryBound   \* bound: entries that match a search

ASSUME HistoryAssumption == EntryBound \in Nat

VARIABLES
    where,     \* "zone" or "audit"
    matching,  \* how many entries match each search, on the server
    search,    \* qInput: what the search field holds
    historyFilter,    \* filters: the search that was applied, and the period
    offset,    \* the page asked for
    request,   \* the running request
    list,      \* what is shown
    drawer     \* the entry opened beside the audit log, and its own request

historyVars == <<where, matching, search, historyFilter, offset, request, list, drawer>>

Searches == {"", "x"}
Entries == 1..2
NoListRequest == [on |-> FALSE, read |-> FALSE, shown |-> 0, total |-> 0]
NoDrawer == [entry |-> 0, full |-> 0, loading |-> {}]

\* What matches "x" is among the entries.
Matchings == {m \in [Searches -> 0..EntryBound] : m["x"] <= m[""]}

HistoryTypeOK ==
    /\ where \in {"zone", "audit"}
    /\ matching \in Matchings
    /\ search \in Searches
    /\ historyFilter \in [q : Searches, valid : BOOLEAN]
    /\ offset \in 0..EntryBound
    /\ request \in [on : BOOLEAN, read : BOOLEAN, shown : 0..1, total : 0..EntryBound]
    /\ list \in [loaded : BOOLEAN, failed : BOOLEAN, shown : 0..1,
                 total : 0..EntryBound, q : Searches]
    /\ drawer \in [entry : {0} \cup Entries, full : {0} \cup Entries,
                   loading : SUBSET Entries]

\* The effect that loads: it runs for the state after the change, and stops
\* the request before it; an invalid period loads nothing.
Load == request' = IF historyFilter'.valid THEN [NoListRequest EXCEPT !.on = TRUE] ELSE NoListRequest

\* A page behind the end may be asked for from the start: the audit log takes
\* it from the address.
HistoryInit ==
    /\ where \in {"zone", "audit"}
    /\ matching \in Matchings
    /\ search = "" /\ historyFilter = [q |-> "", valid |-> TRUE]
    /\ offset \in IF where = "zone" THEN {0} ELSE 0..EntryBound
    /\ request = [NoListRequest EXCEPT !.on = TRUE]
    /\ list = [loaded |-> FALSE, failed |-> FALSE, shown |-> 0, total |-> 0, q |-> ""]
    /\ drawer = NoDrawer

-----------------------------------------------------------------------------
\* Filters and pages.

TypeSearch(s) ==
    /\ s # search
    /\ search' = s
    /\ UNCHANGED <<where, matching, historyFilter, offset, request, list, drawer>>

\* Every new filter starts on the first page.
PageAfterFilter == 0

\* The 400 ms after the last key have passed.
SearchApplied ==
    /\ search # historyFilter.q
    /\ historyFilter' = [historyFilter EXCEPT !.q = search]
    /\ offset' = PageAfterFilter
    /\ Load
    /\ UNCHANGED <<where, matching, search, list, drawer>>

SetPeriod(valid) ==
    /\ valid # historyFilter.valid
    /\ historyFilter' = [historyFilter EXCEPT !.valid = valid]
    /\ offset' = PageAfterFilter
    /\ Load
    /\ UNCHANGED <<where, matching, search, list, drawer>>

ResetFilters ==
    /\ historyFilter # [q |-> "", valid |-> TRUE]
    /\ historyFilter' = [q |-> "", valid |-> TRUE]
    /\ search' = "" /\ offset' = 0
    /\ Load
    /\ UNCHANGED <<where, matching, list, drawer>>

\* Pagination offers the pages of the total it knows.
TurnPage(p) ==
    /\ list.loaded /\ p < list.total /\ p # offset
    /\ offset' = p /\ UNCHANGED historyFilter
    /\ Load
    /\ UNCHANGED <<where, matching, search, list, drawer>>

\* The audit log keeps its filters in the address: with "back" the address
\* changes, and the search field adopts what it says.
Navigate(q, valid, p) ==
    /\ where = "audit"
    /\ <<q, valid, p>> # <<historyFilter.q, historyFilter.valid, offset>>
    /\ historyFilter' = [q |-> q, valid |-> valid]
    /\ search' = q /\ offset' = p
    /\ Load
    /\ UNCHANGED <<where, matching, list, drawer>>

\* The button, the retry of an error, and the reload after a rollback, which
\* goes back to the first page.
Refresh ==
    /\ ~request.on \/ list.failed
    /\ offset' \in IF where = "zone" THEN {offset, 0} ELSE {offset}
    /\ UNCHANGED historyFilter
    /\ Load
    /\ UNCHANGED <<where, matching, search, list, drawer>>

-----------------------------------------------------------------------------
\* The request.

\* Entries come and go on the server.
EntriesChange ==
    /\ matching' \in Matchings
    /\ UNCHANGED <<where, search, historyFilter, offset, request, list, drawer>>

ListRead ==
    /\ request.on /\ ~request.read
    /\ request' = [on |-> TRUE, read |-> TRUE, total |-> matching[historyFilter.q],
                   shown |-> IF offset < matching[historyFilter.q] THEN 1 ELSE 0]
    /\ UNCHANGED <<where, matching, search, historyFilter, offset, list, drawer>>

\* Only the zone's history jumps from behind the end to the last page.
BehindEnd == where = "zone" /\ request.shown = 0 /\ offset > 0 /\ request.total > 0

ListArrives ==
    /\ request.read
    /\ list' = [loaded |-> TRUE, failed |-> FALSE, shown |-> request.shown,
                total |-> request.total, q |-> historyFilter.q]
    /\ UNCHANGED historyFilter
    /\ IF BehindEnd THEN offset' = request.total - 1 /\ Load
       ELSE request' = NoListRequest /\ UNCHANGED offset
    /\ UNCHANGED <<where, matching, search, drawer>>

ListFails ==
    /\ request.on
    /\ request' = NoListRequest
    /\ list' = [list EXCEPT !.loaded = TRUE, !.failed = TRUE]
    /\ UNCHANGED <<where, matching, search, historyFilter, offset, drawer>>

-----------------------------------------------------------------------------
\* The drawer of the audit log: an entry that was cut is fetched whole.

OpenEntry(e) ==
    /\ where = "audit" /\ drawer.entry = 0
    /\ drawer' = [drawer EXCEPT !.entry = e, !.full = 0]
    /\ UNCHANGED <<where, matching, search, historyFilter, offset, request, list>>

CloseEntry ==
    /\ drawer.entry # 0
    /\ drawer' = [drawer EXCEPT !.entry = 0, !.full = 0]
    /\ UNCHANGED <<where, matching, search, historyFilter, offset, request, list>>

LoadEntry ==
    /\ drawer.entry # 0 /\ drawer.full = 0
    /\ drawer' = [drawer EXCEPT !.loading = @ \cup {drawer.entry}]
    /\ UNCHANGED <<where, matching, search, historyFilter, offset, request, list>>

\* setDrawerEntry((cur) => ...): the answer is kept for the entry it is of.
Kept(e) == drawer.entry = e

EntryArrives(e) ==
    /\ e \in drawer.loading
    /\ drawer' = [drawer EXCEPT !.loading = @ \ {e}, !.full = IF Kept(e) THEN e ELSE @]
    /\ UNCHANGED <<where, matching, search, historyFilter, offset, request, list>>

HistoryNext ==
    \/ \E s \in Searches : TypeSearch(s)
    \/ \E p \in 0..EntryBound : TurnPage(p)
    \/ \E v \in BOOLEAN : SetPeriod(v)
    \/ \E q \in Searches, v \in BOOLEAN, p \in 0..EntryBound : Navigate(q, v, p)
    \/ \E e \in Entries : OpenEntry(e) \/ EntryArrives(e)
    \/ SearchApplied \/ ResetFilters \/ Refresh \/ EntriesChange
    \/ ListRead \/ ListArrives \/ ListFails \/ CloseEntry \/ LoadEntry

HistorySpec == HistoryInit /\ [][HistoryNext]_historyVars

-----------------------------------------------------------------------------
\* "No entries" is never said of a search that has some: at rest, without an
\* error, an empty history of a zone means that the answer counted none,
\* however many entries were removed while the user was on a late page.
EmptyMeansNone ==
    where = "zone" /\ list.loaded /\ ~request.on /\ ~list.failed /\ historyFilter.valid
    /\ list.shown = 0 => list.total = 0

\* At rest and without an error the list answers the filter that is set.
ListAnswersFilter ==
    list.loaded /\ ~request.on /\ ~list.failed /\ historyFilter.valid => list.q = historyFilter.q

\* The drawer never shows the details of another entry than the one opened,
\* in whatever order the entries are opened, fetched and answered.
DrawerShowsItsEntry == drawer.full \in {0, drawer.entry}

\* What the page shows belongs to what was asked for: all three.
HistoryIsTrue == EmptyMeansNone /\ ListAnswersFilter /\ DrawerShowsItsEntry

=============================================================================
