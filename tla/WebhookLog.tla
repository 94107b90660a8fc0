------------------------------- MODULE WebhookLog -------------------------------
(***************************************************************************)
(* The delivery log of a webhook (WebhookDeliveriesDrawer): a list that is *)
(* filtered and paged, loads itself again while deliveries are open, and   *)
(* lets a delivery be sent once more.  A view is a filter and a page; of   *)
(* the deliveries only their being open is kept, not their payloads.       *)
(***************************************************************************)
EXTENDS Naturals, Sequences, SequencesExt

CONSTANTS LogFilters,    \* the filters of the log
          LoadsBound     \* bound: requests for the list that are on the way

ASSUME LogAssumption == LoadsBound \in Nat \ {0}

Views == LogFilters \X {0, 1}   \* bound: pages

VARIABLES
    view,     \* the filter and the page that are chosen
    logLoads,    \* the requests for the list, the newest last
    logRows,     \* the list: the view it answers, who asked, whether deliveries are open, more pages
    loading,  \* a load that shows itself is on the way, or was overtaken by one that does not
    broken,   \* the last load failed
    retry     \* the request to send a delivery again

logVars == <<view, logLoads, logRows, loading, broken, retry>>

Ask(v, by) == [view |-> v, by |-> by, newest |-> TRUE]
Asks == [view : Views, by : {"page", "timer", "retry"}, newest : BOOLEAN]
NoRetry == [at |-> "none", view |-> <<>>]

WebhookLogTypeOK ==
    /\ view \in Views /\ logLoads \in Seq(Asks) /\ Len(logLoads) <= LoadsBound
    /\ logRows.for \in Views \cup {<<>>} /\ logRows.by \in {"none", "page", "timer", "retry"}
    /\ {logRows.open, logRows.more, loading, broken} \subseteq BOOLEAN
    /\ retry.at \in {"none", "sent", "reload"} /\ retry.view \in Views \cup {<<>>}

WebhookLogInit ==
    /\ view \in LogFilters \X {0} /\ logLoads = <<Ask(view, "page")>>
    /\ logRows = [for |-> <<>>, by |-> "none", open |-> FALSE, more |-> FALSE]
    /\ loading = TRUE /\ broken = FALSE /\ retry = NoRetry

-----------------------------------------------------------------------------
\* load: for the view of the function that calls it; it takes the next number
\* and so makes every request before it an old one.  (Of more than LoadsBound
\* requests the oldest is forgotten, its answer is dropped anyway.)
LoadLog(v, by) ==
    LET old == [i \in DOMAIN logLoads |-> [logLoads[i] EXCEPT !.newest = FALSE]]
    IN /\ logLoads' = Append(IF Len(logLoads) = LoadsBound THEN Tail(old) ELSE old, Ask(v, by))
       /\ loading' = (loading \/ by = "page")

\* A change of the filter starts at the first page.
ChangeFilter(f) ==
    /\ f # view[1]
    /\ view' = <<f, 0>> /\ LoadLog(view', "page")
    /\ UNCHANGED <<logRows, broken, retry>>

Page(p) ==
    /\ logRows.more \/ p < view[2]
    /\ p # view[2] /\ view' = <<view[1], p>> /\ LoadLog(view', "page")
    /\ UNCHANGED <<logRows, broken, retry>>

RefreshButton == ~loading /\ LoadLog(view, "page") /\ UNCHANGED <<view, logRows, broken, retry>>

\* shouldAutoRefresh: every five seconds while an open delivery is in the list
\* and the tab is visible.
AutoRefresh == logRows.open /\ LoadLog(view, "timer") /\ UNCHANGED <<view, logRows, broken, retry>>

NewestLoad(i) == logLoads[i].newest

Arrives(i, ok, open, more) ==
    /\ logRows' = IF NewestLoad(i) /\ ok
               THEN [for |-> logLoads[i].view, by |-> logLoads[i].by, open |-> open, more |-> more]
               ELSE logRows
    /\ broken' = IF NewestLoad(i) THEN ~ok ELSE broken
    /\ loading' = (loading /\ ~NewestLoad(i))
    /\ logLoads' = RemoveAt(logLoads, i)
    /\ retry' = IF retry.at = "reload" /\ logLoads[i].by = "retry" THEN NoRetry ELSE retry
    /\ UNCHANGED <<view>>

-----------------------------------------------------------------------------
\* handleRetry: when the request has been answered the list is loaded by the
\* function of the click, for the view of that moment.  A retry whose load was
\* overtaken ends with it, too.
Retry ==
    /\ logRows.for # <<>> /\ retry.at = "none"
    /\ retry' = [at |-> "sent", view |-> view] /\ broken' = FALSE
    /\ UNCHANGED <<view, logLoads, loading, logRows>>

RetryAnswered ==
    /\ retry.at = "sent"
    /\ LoadLog(retry.view, "retry") /\ retry' = [retry EXCEPT !.at = "reload"]
    /\ UNCHANGED <<view, logRows, broken>>

RetryFails ==
    /\ retry.at = "sent" /\ retry' = NoRetry /\ broken' = TRUE
    /\ UNCHANGED <<view, logLoads, loading, logRows>>

\* The load of the retry is no longer among the newest: it was aborted.
RetryOvertaken ==
    /\ retry.at = "reload" /\ \A i \in DOMAIN logLoads : logLoads[i].by # "retry"
    /\ retry' = NoRetry
    /\ UNCHANGED <<view, logLoads, loading, logRows, broken>>

WebhookLogNext ==
    \/ \E f \in LogFilters : ChangeFilter(f)
    \/ \E p \in {0, 1} : Page(p)
    \/ \E i \in DOMAIN logLoads, ok, open, more \in BOOLEAN : Arrives(i, ok, open, more)
    \/ RefreshButton \/ AutoRefresh \/ Retry \/ RetryAnswered \/ RetryFails \/ RetryOvertaken

WebhookLogSpec == WebhookLogInit /\ [][WebhookLogNext]_logVars

-----------------------------------------------------------------------------
\* Whatever order the answers come in: once the last has come, the list answers
\* the filter and the page that are chosen, or says that it could not be loaded.
\* Only the list a retry loaded may be that of the view the retry was clicked in,
\* and while a retry is on the way the message of a failed load is gone.
LogAnswersItsView ==
    logLoads = <<>> /\ ~broken /\ retry.at = "none" /\ logRows.by # "retry" => logRows.for = view

=============================================================================
