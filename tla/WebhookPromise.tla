---------------------------- MODULE WebhookPromise ----------------------------
(***************************************************************************)
(* What the webhook outbox promises, without its table, its worker or its  *)
(* requests: a delivery that was enqueued is open until it is settled, it  *)
(* is settled as succeeded only after its receiver processed it, and it is *)
(* always settled in the end (docs/PANEL-API.md, "Zustellung").            *)
(***************************************************************************)
CONSTANT Deliveries

VARIABLES phase,   \* none -> open -> succeeded / discarded; deleted
          accepted \* deliveries a receiver has processed

pvars == <<phase, accepted>>

Move(ds, from, to) ==
    /\ ds # {} /\ \A d \in ds : phase[d] \in from
    /\ phase' = [d \in Deliveries |-> IF d \in ds THEN to ELSE phase[d]]
    /\ UNCHANGED accepted

PInit == phase = [d \in Deliveries |-> "none"] /\ accepted = {}

\* One event creates the deliveries of all its recipients at once.  One that can
\* be neither signed nor addressed is discarded at birth.
Create(ds) ==
    /\ ds # {} /\ \A d \in ds : phase[d] = "none"
    /\ \E born \in [Deliveries -> {"open", "discarded"}] :
          phase' = [d \in Deliveries |-> IF d \in ds THEN born[d] ELSE phase[d]]
    /\ UNCHANGED accepted

\* A post may arrive after its delivery was settled or deleted.
Accept(d) ==
    /\ phase[d] # "none"
    /\ accepted' = accepted \cup {d}
    /\ UNCHANGED phase

\* The result of an attempt may be stored after something else settled the
\* delivery, and then replaces that outcome.
Succeed(d)  == d \in accepted /\ Move({d}, {"open", "discarded"}, "succeeded")
Correct(d)  == Move({d}, {"succeeded"}, "discarded")
Discard(ds) == Move(ds, {"open"}, "discarded")
Reopen(d)   == Move({d}, {"succeeded", "discarded"}, "open")
Delete(ds)  == Move(ds, {"open", "succeeded", "discarded"}, "deleted")

PNext ==
    \/ \E ds \in SUBSET Deliveries : Create(ds) \/ Discard(ds) \/ Delete(ds)
    \/ \E d \in Deliveries : Accept(d) \/ Succeed(d) \/ Correct(d) \/ Reopen(d)

Settle(d) == phase[d] = "open" /\ PNext /\ phase'[d] # "open"

PSpec == PInit /\ [][PNext]_pvars /\ \A d \in Deliveries : WF_pvars(Settle(d))

==============================================================================
