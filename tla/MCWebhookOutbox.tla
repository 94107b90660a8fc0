--------------------------- MODULE MCWebhookOutbox ---------------------------
(* Instances of WebhookOutbox for TLC.                                       *)
EXTENDS WebhookOutbox, TLC

CONSTANTS h1, h2, d1, d2, r1, r2

\* Every delivery goes to one webhook, or the last one to a webhook of its own.
ToOneHook  == [d \in Deliveries |-> h1]
ToTwoHooks == [d \in Deliveries |-> IF d = d2 THEN h2 ELSE h1]

RequestSymmetry == Permutations(Requests)

==============================================================================
