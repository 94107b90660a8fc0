------------------------------ MODULE SecretCards ------------------------------
(***************************************************************************)
(* The cards that hand out secrets which are shown once: webhooks, DynDNS  *)
(* tokens, panel tokens, ACME tokens, the metrics token and the random     *)
(* password of an account.  Each lists its items, runs requests on single  *)
(* rows, creates items in a form and shows a new secret in a dialog above  *)
(* everything else (OneTimeSecretModal).  Whether an item is paused, and   *)
(* what a form asks for, is left to TokenForms and WebhookForm.            *)
(***************************************************************************)
EXTENDS Naturals, FiniteSets

CONSTANTS Items,        \* items an account may have
          SecretBound,  \* bound: secrets the server gives out
          Cards         \* the cards to look at

ASSUME CardsAssumption ==
    /\ Cards \subseteq {"webhooks", "dyndns", "tokens", "acme", "metrics", "password"}
    /\ SecretBound \in Nat

None == "none"
Slots == {1, 2}   \* bound: requests that are on the way at the same time

VARIABLES
    card,      \* the card on the page
    items,     \* the items on the server
    issued,    \* the secrets given out so far
    cardList,      \* the items the card shows
    requests,  \* a request on the way in each slot
    busyRow,   \* the row whose buttons are locked, "all" for the whole card
    cardForm,     \* the form over the card
    shown,     \* the secret on display, or 0
    owedSecrets       \* observer: the secrets that reached the page, not yet confirmed

secretVars == <<card, items, issued, cardList, requests, busyRow, cardForm, shown, owedSecrets>>

Secrets == 1..SecretBound
NoRequest == [op |-> "idle", item |-> None, at |-> "idle", secret |-> 0, found |-> {}]

SecretTypeOK ==
    /\ card \in Cards /\ items \subseteq Items /\ cardList \subseteq Items
    /\ issued \in 0..SecretBound /\ shown \in 0..SecretBound /\ owedSecrets \subseteq Secrets
    /\ requests \in [Slots -> [op : {"idle", "load", "create", "edit", "change", "rotate", "delete"},
                               item : Items \cup {None},
                               at : {"idle", "sent", "done", "failed", "reload", "read"},
                               secret : 0..SecretBound, found : SUBSET Items]]
    /\ busyRow \in Items \cup {None, "all"}
    /\ cardForm \in [open : BOOLEAN, edits : BOOLEAN, valid : BOOLEAN]

NoCardForm == [open |-> FALSE, edits |-> FALSE, valid |-> FALSE]
FirstLoad == [NoRequest EXCEPT !.op = "load", !.at = "reload"]

SecretInit ==
    /\ card \in Cards /\ items = Items /\ issued = 0 /\ cardList = {}
    /\ requests = [k \in Slots |-> IF k = 1 THEN FirstLoad ELSE NoRequest]
    /\ busyRow = None /\ cardForm = NoCardForm /\ shown = 0 /\ owedSecrets = {}

-----------------------------------------------------------------------------
\* What each card offers: pairs of a row and a request on it.

FreeRows == {i \in cardList : busyRow # i}
RowOps == {"change", "rotate", "delete"}

WebhooksOffers == FreeRows \X RowOps
DyndnsOffers == FreeRows \X RowOps
TokensOffers == FreeRows \X {"change", "delete"}
AcmeOffers == cardList \X {"delete"}
MetricsOffers == IF busyRow = None THEN Items \X {"rotate", "delete"} ELSE {}
PasswordOffers == IF busyRow = None THEN cardList \X {"change", "rotate"} ELSE {}

Offers == CASE card = "webhooks" -> WebhooksOffers
            [] card = "dyndns"   -> DyndnsOffers
            [] card = "tokens"   -> TokensOffers
            [] card = "acme"     -> AcmeOffers
            [] card = "metrics"  -> MetricsOffers
            [] card = "password" -> PasswordOffers

\* Which buttons a request locks until it has ended.
Locks(i) == CASE card = "acme" -> None
              [] card \in {"metrics", "password"} -> "all"
              [] OTHER -> i

\* A dialog covers the card: OneTimeSecretModal lies above everything, and
\* neither ESC nor a click beside it closes it.
\* (Mutant: the form alone covers the card.)
Covered_form == cardForm.open
Covered == cardForm.open \/ shown # 0

Free(k) == requests[k].at = "idle" /\ \A m \in Slots : requests[m].at = "idle" => k <= m

SendFrom(k, op, i) ==
    requests' = [requests EXCEPT ![k] = [NoRequest EXCEPT !.op = op, !.item = i, !.at = "sent"]]

\* runAction and its like: the last row that was clicked is the locked one.
Act(k, i, op) ==
    /\ ~Covered /\ Free(k) /\ <<i, op>> \in Offers
    /\ SendFrom(k, op, i) /\ busyRow' = Locks(i)
    /\ UNCHANGED <<card, items, issued, cardList, cardForm, shown, owedSecrets>>

\* The list again: "retry", or the delivery log of a webhook was closed.
RefreshCard(k) ==
    /\ card \in {"webhooks", "tokens"} /\ ~Covered /\ Free(k)
    /\ requests' = [requests EXCEPT ![k] = FirstLoad]
    /\ UNCHANGED <<card, items, issued, cardList, busyRow, cardForm, shown, owedSecrets>>

-----------------------------------------------------------------------------
\* The forms.

HasCardForm == card \in {"webhooks", "dyndns", "tokens", "acme"}
CardFormRequest(k) == requests[k].op \in {"create", "edit"}

\* A form is locked from the request to its answer; that for ACME tokens until
\* the list has been loaded again.
Sending == \E k \in Slots :
    CardFormRequest(k) /\ requests[k].at \in {"sent", "done", "failed"} \cup
                                      (IF card = "acme" THEN {"reload", "read"} ELSE {})

OpenCardForm(edits) ==
    /\ ~Covered /\ HasCardForm
    /\ edits => card # "acme" /\ FreeRows # {}
    /\ cardForm' = [NoCardForm EXCEPT !.open = TRUE, !.edits = edits, !.valid = edits]
    /\ UNCHANGED <<card, items, issued, cardList, requests, busyRow, shown, owedSecrets>>

FillCardForm(valid) ==
    /\ cardForm.open /\ shown = 0 /\ valid # cardForm.valid
    /\ cardForm' = [cardForm EXCEPT !.valid = valid]
    /\ UNCHANGED <<card, items, issued, cardList, requests, busyRow, shown, owedSecrets>>

\* Cancel, the cross, ESC, and a save of an item nothing was changed on.
CloseCardForm ==
    /\ cardForm.open /\ ~Sending /\ shown = 0
    /\ cardForm' = NoCardForm
    /\ UNCHANGED <<card, items, issued, cardList, requests, busyRow, shown, owedSecrets>>

SubmitCardForm(k, i) ==
    /\ cardForm.open /\ ~Sending /\ shown = 0 /\ cardForm.valid /\ Free(k)
    /\ cardForm.edits => i \in cardList
    /\ ~cardForm.edits => i \notin items
    /\ SendFrom(k, IF cardForm.edits THEN "edit" ELSE "create", i)
    /\ UNCHANGED <<card, items, issued, cardList, busyRow, cardForm, shown, owedSecrets>>

-----------------------------------------------------------------------------
\* The server, and the answers in any order.

MakesSecret(op) == op \in {"create", "rotate"}

ServeCard(k) ==
    LET r == requests[k] IN
    /\ r.at = "sent"
    /\ MakesSecret(r.op) => issued < SecretBound
    /\ IF r.op # "create" /\ card # "metrics" /\ r.item \notin items
       THEN /\ requests' = [requests EXCEPT ![k].at = "failed"]
            /\ UNCHANGED <<items, issued>>
       ELSE /\ items' = IF r.op = "delete" THEN items \ {r.item} ELSE items \cup {r.item}
            /\ issued' = IF MakesSecret(r.op) THEN issued + 1 ELSE issued
            /\ requests' = [requests EXCEPT ![k].at = "done",
                                            ![k].secret = IF MakesSecret(r.op) THEN issued' ELSE 0]
    /\ UNCHANGED <<card, cardList, busyRow, cardForm, shown, owedSecrets>>

\* The request or its answer is lost; then a new secret is lost too.
Fails(k) ==
    /\ requests[k].at \in {"sent", "done"}
    /\ requests' = [requests EXCEPT ![k].at = "failed", ![k].secret = 0]
    /\ UNCHANGED <<card, items, issued, cardList, busyRow, cardForm, shown, owedSecrets>>

\* The card of the DynDNS tokens shows a rotated secret after the reload only;
\* the others, and every form, show it as soon as the answer is there.
ShownAtOnce(r) == r.secret # 0 /\ ~(card = "dyndns" /\ r.op = "rotate")

\* The cards that unlock the row before the reload.
UnlocksFirst == card \in {"tokens", "password"}

CardAnswered(k) ==
    LET r == requests[k] IN
    /\ r.at = "done"
    /\ shown' = IF ShownAtOnce(r) THEN r.secret ELSE shown
    /\ owedSecrets' = IF r.secret # 0 THEN owedSecrets \cup {r.secret} ELSE owedSecrets
    /\ cardForm' = IF CardFormRequest(k) THEN NoCardForm ELSE cardForm
    /\ busyRow' = IF ~CardFormRequest(k) /\ UnlocksFirst THEN None ELSE busyRow
    /\ requests' = [requests EXCEPT ![k].at = "reload"]
    /\ UNCHANGED <<card, items, issued, cardList>>

\* An error is told in the form or on the card; only the card of the panel
\* tokens reloads after one.
CardRefused(k) ==
    LET r == requests[k] IN
    /\ r.at = "failed"
    /\ busyRow' = IF CardFormRequest(k) THEN busyRow ELSE None
    /\ requests' = [requests EXCEPT ![k] =
                      IF card = "tokens" /\ ~CardFormRequest(k) THEN [@ EXCEPT !.at = "reload"]
                      ELSE NoRequest]
    /\ UNCHANGED <<card, items, issued, cardList, cardForm, shown, owedSecrets>>

CardListRead(k) ==
    /\ requests[k].at = "reload"
    /\ requests' = [requests EXCEPT ![k].at = "read", ![k].found = items]
    /\ UNCHANGED <<card, items, issued, cardList, busyRow, cardForm, shown, owedSecrets>>

\* Nothing orders the lists: the one that arrives last is shown.  An error
\* empties the list of webhooks and leaves the others as they are.
CardListArrives(k, ok) ==
    LET r == requests[k] IN
    /\ r.at = "read"
    /\ cardList' = CASE ok -> r.found
                 [] card = "webhooks" -> {}
                 [] OTHER -> cardList
    /\ shown' = IF r.secret # 0 /\ ~ShownAtOnce(r) THEN r.secret ELSE shown
    /\ busyRow' = IF CardFormRequest(k) \/ r.op = "load" \/ UnlocksFirst THEN busyRow ELSE None
    /\ requests' = [requests EXCEPT ![k] = NoRequest]
    /\ UNCHANGED <<card, items, issued, cardForm, owedSecrets>>

\* The button of the dialog, the only way out of it.
ConfirmSecret ==
    /\ shown # 0
    /\ owedSecrets' = owedSecrets \ {shown} /\ shown' = 0
    /\ UNCHANGED <<card, items, issued, cardList, requests, busyRow, cardForm>>

SecretNext ==
    \/ \E k \in Slots, i \in Items : SubmitCardForm(k, i) \/ \E op \in RowOps : Act(k, i, op)
    \/ \E k \in Slots : RefreshCard(k) \/ ServeCard(k) \/ Fails(k) \/ CardAnswered(k) \/ CardRefused(k) \/ CardListRead(k)
    \/ \E k \in Slots, ok \in BOOLEAN : CardListArrives(k, ok)
    \/ \E b \in BOOLEAN : OpenCardForm(b) \/ FillCardForm(b)
    \/ CloseCardForm \/ ConfirmSecret

SecretSpec == SecretInit /\ [][SecretNext]_secretVars

-----------------------------------------------------------------------------
\* A secret that reached the page is on display until the user confirms it, or
\* its row is still being reloaded; no later answer takes its place, as
\* OneTimeSecretModal says of itself.  It holds on the cards that let only one
\* request for a secret be on the way: panel tokens, ACME tokens, metrics and
\* passwords.  On the cards for webhooks and DynDNS a rotation in a second row
\* breaks it.
SecretShownUntilConfirmed == \A s \in owedSecrets :
    shown = s \/ \E k \in Slots : requests[k].secret = s /\ ~ShownAtOnce(requests[k])

=============================================================================
