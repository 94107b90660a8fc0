------------------------------- MODULE WebhookForm -------------------------------
(***************************************************************************)
(* Choosing the events of a webhook (WebhookFormModal with webhookUi.js):  *)
(* the stored filters become a tree of boxes, the tree becomes filters     *)
(* again, and the server matches events against those.  The order of the   *)
(* filters does not matter and is left out.                                *)
(***************************************************************************)
EXTENDS Naturals, FiniteSets

CONSTANTS Categories,   \* the categories of events
          Events,       \* the events a webhook can subscribe to
          CategoryOf,   \* the category of each
          OldMatches    \* the events the one old filter the panel does not know matches

ASSUME WebhookFormAssumption == CategoryOf \in [Events -> Categories] /\ OldMatches \subseteq Events

\* A filter: "*" is everything, "record" and "record.*" are categories,
\* "record.created" is an event, and an old one is none of these.
All == <<"all", "all">>
Filters == {All, <<"old", "old">>} \cup ({"category", "star"} \X Categories) \cup ({"event"} \X Events)
Old == {f \in Filters : f[1] = "old"}
Tokens == {f \in Filters : f[1] \in {"category", "event"}}

VARIABLES
    hook,    \* the stored webhook: its filters, and whether its address can be read
    tree,    \* the form: all, the ticked tokens, the old filters; its address
    webhookTold     \* what came of the last save

webhookFormVars == <<hook, tree, webhookTold>>

NoTree == [open |-> FALSE, edits |-> FALSE, all |-> FALSE, tokens |-> {}, legacy |-> {}, url |-> FALSE]

WebhookFormTypeOK ==
    /\ hook \in [there : BOOLEAN, filters : SUBSET Filters, readable : BOOLEAN]
    /\ tree \in [open : BOOLEAN, edits : BOOLEAN, all : BOOLEAN, tokens : SUBSET Tokens,
                 legacy : SUBSET Old, url : BOOLEAN]
    /\ webhookTold \in {"nothing", "saved", "unchanged", "missing", "refused"}

\* A list is stored as normalize_event_filters leaves it, or is older than that.
StoredFilters(list) == IF list = {} \/ All \in list THEN {All} ELSE list
WebhookFormInit ==
    /\ hook \in {h \in [there : {TRUE}, filters : SUBSET Filters, readable : BOOLEAN] :
                   h.filters = StoredFilters(h.filters)}
    /\ tree = NoTree /\ webhookTold = "nothing"

-----------------------------------------------------------------------------
\* webhookUi.js.

\* parseEventFilters: "record" and "record.*" are the box of the category.
ParseEventFilters(filters) ==
    IF All \in filters \/ filters = {}
    THEN [all |-> TRUE, tokens |-> {}, legacy |-> {}]
    ELSE [all |-> FALSE, legacy |-> filters \cap Old,
          tokens |-> (filters \cap Tokens) \cup
                     {<<"category", f[2]>> : f \in {g \in filters : g[1] = "star"}}]

\* buildEventFilters: an event of a ticked category needs no filter of its own.
BuildEventFilters(t) ==
    IF t.all THEN {All}
    ELSE t.legacy \cup {f \in t.tokens : f[1] = "event" => <<"category", CategoryOf[f[2]]>> \notin t.tokens}

\* sameEventFilters: compares by meaning of the single filters.
Plainly(filters) == IF filters = {} \/ All \in filters THEN {All}
                    ELSE {IF f[1] = "star" THEN <<"category", f[2]>> ELSE f : f \in filters}
SameEventFilters(a, b) == Plainly(a) = Plainly(b)

\* The boxes that are ticked, by themselves or by a box above.
Ticked(t) == {e \in Events : \/ t.all
                             \/ <<"category", CategoryOf[e]>> \in t.tokens
                             \/ <<"event", e>> \in t.tokens}

-----------------------------------------------------------------------------
\* The form.

OpenWebhook(edits) ==
    LET t == ParseEventFilters(IF edits THEN hook.filters ELSE {All}) IN
    /\ ~tree.open /\ hook.there = edits
    /\ tree' = [open |-> TRUE, edits |-> edits, all |-> t.all, tokens |-> t.tokens,
                legacy |-> t.legacy, url |-> edits /\ hook.readable]
    /\ webhookTold' = "nothing" /\ UNCHANGED hook

CloseWebhook == tree.open /\ tree' = NoTree /\ UNCHANGED <<hook, webhookTold>>

\* toggleEventToken; under "all" and under a ticked category the boxes are locked.
ToggleAllEvents == tree.open /\ tree' = [tree EXCEPT !.all = ~@] /\ UNCHANGED <<hook, webhookTold>>

IsCoveredEvent(t, e) == t.all \/ <<"category", CategoryOf[e]>> \in t.tokens

ToggleToken(token) ==
    /\ tree.open /\ ~tree.all
    /\ token[1] = "event" => ~IsCoveredEvent(tree, token[2])
    /\ tree' = [tree EXCEPT !.tokens = IF token \in @ THEN @ \ {token} ELSE @ \cup {token}]
    /\ UNCHANGED <<hook, webhookTold>>

RemoveLegacyFilter(f) ==
    /\ tree.open /\ ~tree.all /\ f \in tree.legacy
    /\ tree' = [tree EXCEPT !.legacy = @ \ {f}] /\ UNCHANGED <<hook, webhookTold>>

TypeUrl(given) ==
    /\ tree.open /\ given # tree.url
    /\ tree' = [tree EXCEPT !.url = given] /\ UNCHANGED <<hook, webhookTold>>

\* validateWebhookForm: an address, unless the stored one stays, and a filter.
\* (Mutant: a form without any filter is sent, which the server takes for all.)
Valid_unfiltered(t) == t.url \/ (t.edits /\ hook.readable)
Valid(t) == (t.url \/ (t.edits /\ hook.readable)) /\ BuildEventFilters(t) # {}

-----------------------------------------------------------------------------
\* The server.

\* normalize_event_filters: an unknown filter is refused, with all the others.
Known(filters) == All \in filters \/ filters \cap Old = {}

\* matches_subscription.
MatchedBy(f) == CASE f = All -> Events
                  [] f[1] \in {"category", "star"} -> {e \in Events : CategoryOf[e] = f[2]}
                  [] f[1] = "event" -> {f[2]}
                  [] f[1] = "old" -> OldMatches
Wanted(filters) == IF filters = {} THEN Events ELSE UNION {MatchedBy(f) : f \in filters}

\* diffWebhookUpdate: the save of a new webhook sends everything, that of an
\* old one what differs; an empty address never replaces a stored one.
FiltersSent(t) == ~t.edits \/ ~SameEventFilters(BuildEventFilters(t), hook.filters)

SubmitWebhook ==
    LET filters == BuildEventFilters(tree)
        sent == FiltersSent(tree)
    IN /\ tree.open
       /\ IF ~Valid(tree) THEN webhookTold' = "missing" /\ UNCHANGED <<hook, tree>>
          ELSE IF sent /\ ~Known(filters) THEN webhookTold' = "refused" /\ UNCHANGED <<hook, tree>>
          ELSE /\ hook' = [there |-> TRUE, readable |-> hook.readable \/ tree.url,
                           filters |-> IF sent THEN StoredFilters(filters) ELSE hook.filters]
               /\ webhookTold' = IF sent \/ (tree.url /\ ~hook.readable) THEN "saved" ELSE "unchanged"
               /\ tree' = [tree EXCEPT !.open = FALSE]

DeleteWebhook ==
    /\ hook.there /\ ~tree.open
    /\ hook' = [there |-> FALSE, filters |-> {All}, readable |-> FALSE]
    /\ tree' = NoTree /\ webhookTold' = "nothing"

WebhookFormNext ==
    \/ CloseWebhook \/ ToggleAllEvents \/ SubmitWebhook \/ DeleteWebhook
    \/ \E b \in BOOLEAN : OpenWebhook(b) \/ TypeUrl(b)
    \/ \E f \in Tokens : ToggleToken(f)
    \/ \E f \in Old : RemoveLegacyFilter(f)

WebhookFormSpec == WebhookFormInit /\ [][WebhookFormNext]_webhookFormVars

-----------------------------------------------------------------------------
\* After a save the server delivers exactly the events that were ticked in the
\* form, and those of an old filter that stood below the boxes.
TickedIsDelivered ==
    webhookTold \in {"saved", "unchanged"} =>
        Wanted(hook.filters) = Ticked(tree) \cup
                               (IF tree.all THEN {} ELSE UNION {MatchedBy(f) : f \in tree.legacy})

=============================================================================
