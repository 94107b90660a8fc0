------------------------ MODULE WebhookPromiseProofs ------------------------
(***************************************************************************)
(* Proofs that the outbox keeps the safety part of its promise, and that a *)
(* cancelled delivery is final, from the invariant of WebhookOutboxProofs. *)
(***************************************************************************)
EXTENDS WebhookOutboxProofs

\* A cancelled row changes only by the owner's retry, or by a sender of a delivery
\* that was retried before.
LEMMA CancelledKept ==
  ASSUME IInv, [Next]_vars, NEW d \in Deliveries,
         row[d].status = "cancelled", row'[d].status \notin {"cancelled", "deleted"}
  PROVE  d \in retried'
  <1> USE DEF db, process, observed
  <1>0. /\ TypeOK /\ DeliveryInv(d) /\ row[d] \in Row /\ RequestInv
    BY DEF IInv, TypeOK
  <1>1. ASSUME NEW r \in Requests, RequestStep(r) PROVE d \in retried'
    <2>1. CASE EnqueueRead(r) \/ Abort(r) \/ (\E e \in Deliveries : RetryRead(r, e))
               \/ (\E h \in Hooks : RotateRead(r, h))
      BY <2>1 DEF EnqueueRead, Abort, RetryRead, RotateRead
    <2>2. CASE EnqueueCommit(r)
      BY <1>0, <2>2 DEF EnqueueCommit, RequestInv
    <2>3. ASSUME NEW e \in Deliveries, RetryCommit(r, e) PROVE d \in retried'
      <3>1. d = e  BY <1>0, <2>3 DEF RetryCommit, TypeOK
      <3>2. row'[d] = Retried(row[d], req[r].rows[d], req[r].secret)
        BY <1>0, <2>3, <3>1 DEF RetryCommit, TypeOK
      <3>3. req[r].rows[d] \in Row  BY <1>0 DEF TypeOK, Request
      <3>4. req[r].rows[d].status # "failed"  BY <1>0, <3>2, <3>3, RetriedFields DEF Same
      <3>5. QED  BY <2>3, <3>1, <3>4 DEF RetryCommit
    <2>4. ASSUME NEW h \in Hooks, RotateCommit(r, h) PROVE FALSE
      BY <1>0, <2>4 DEF RotateCommit, Row
    <2>5. QED  BY <1>1, <2>1, <2>2, <2>3, <2>4 DEF RequestStep
  <1>2. ASSUME ManagementStep PROVE FALSE
    <2>1. \A ds \in SUBSET Deliveries, status \in {"dead", "cancelled", "deleted"} :
             row' = WithStatus(ds, status) => d \in ds /\ status = "dead"
      BY <1>0, WithStatusFields
    <2>2. CASE \E h \in Hooks : Deactivate(h)
      BY <2>1, <2>2 DEF Deactivate, RowsOf, RowsWith, PENDING_STATUSES
    <2>3. CASE (\E h \in Hooks : DeleteHook(h)) \/ DeleteOwner \/ revoke_all
      BY <2>1, <2>3 DEF DeleteHook, DeleteOwner, revoke_all, RowsOf, RowsWith
    <2>4. CASE (\E h \in Hooks : CreateHook(h) \/ Activate(h) \/ SetUrl(h))
               \/ (\E state \in {"active", "inactive"} : SetOwnerActive(state))
      BY <2>4 DEF CreateHook, Activate, SetUrl, SetOwnerActive
    <2>5. QED  BY <1>2, <2>2, <2>3, <2>4 DEF ManagementStep
  <1>3. ASSUME NEW e \in Deliveries, TestStart(e) \/ Start(e) \/ BackoffEnds(e) \/ ClaimTimesOut(e)
        PROVE  FALSE
    <2>1. d = e
      BY <1>0, <1>3 DEF TestStart, Start, BackoffEnds, ClaimTimesOut, TypeOK
    <2>2. QED
      BY <1>0, <1>3, <2>1 DEF TestStart, Fresh, Start, BackoffEnds, ClaimTimesOut
  <1>4. ASSUME NEW s \in Senders, NEW e \in Deliveries, SenderStep(s, e) PROVE d \in retried'
    <2>1. CASE Store(s, e)
      <3>1. d = e  BY <1>0, <2>1 DEF Store, TypeOK
      <3>2. job[s][d] # "none" /\ retried' = retried  BY <2>1, <3>1 DEF Store, Verdicts
      <3>3. QED  BY <1>0, <3>2 DEF DeliveryInv, Owned, Senders
    <2>2. CASE Answer(s, e) \/ Reload(s, e) \/ JobFails(s, e)
      BY <2>2 DEF Answer, Reload, JobFails
    <2>3. QED  BY <1>4, <2>1, <2>2 DEF SenderStep
  <1>5. ASSUME WorkerStep PROVE FALSE
    <2>1. CASE HousekeepingDelete
      <3>1. purge \in SUBSET Deliveries  BY <1>0 DEF TypeOK
      <3>2. QED  BY <1>0, <2>1, <3>1, WithStatusFields DEF HousekeepingDelete
    <2>2. CASE reset_in_progress_on_startup \/ reset_stale
      <3>1. PICK ds \in SUBSET RowsWith({"in_progress"}) : row' = ResetRows(ds)
        BY <2>2 DEF reset_in_progress_on_startup, reset_stale
      <3>2. QED  BY <3>1 DEF ResetRows, RowsWith
    <2>3. CASE claim_due
      BY <2>3 DEF claim_due, Due, RowsWith, PENDING_STATUSES
    <2>4. CASE HousekeepingSelect \/ RoundEnds \/ LoopError
      BY <2>4 DEF HousekeepingSelect, RoundEnds, LoopError
    <2>5. QED  BY <1>5, <2>1, <2>2, <2>3, <2>4 DEF WorkerStep
  <1>6. CASE Crash \/ Restart \/ UNCHANGED vars
    BY <1>6 DEF Crash, Restart, vars
  <1>7. QED  BY <1>1, <1>2, <1>3, <1>4, <1>5, <1>6 DEF Next

\* What a revocation cancelled stays cancelled, whatever a sender still holds, unless
\* the owner retries the delivery (access_revocation.revoke_all against _process).
THEOREM CancellationIsFinal == Spec => CancelledIsFinal
  <1>1. IInv /\ [Next]_vars =>
          [\A d \in Deliveries :
             row[d].status = "cancelled" /\ row'[d].status \notin {"cancelled", "deleted"} =>
                d \in retried']_vars
    BY CancelledKept
  <1>2. QED  BY <1>1, InductiveInvariant, PTL DEF Spec, CancelledIsFinal

------------------------------------------------------------------------------
(* The steps of the outbox are steps of the promise                              *)

Kept(d) == Phase(row'[d].status) = Phase(row[d].status)

Stutters == (\A d \in Deliveries : Kept(d)) /\ accepted' = accepted

Promised == [Promise!PNext]_Promise!pvars

LEMMA StutterPromised == ASSUME Stutters PROVE Promised
  BY DEF Stutters, Kept, Promised, Promise!pvars

\* Rows that move from some phases to another one, while the other rows stay.
Moved(ds, from, to) ==
    /\ \A d \in ds : Phase(row[d].status) \in from /\ Phase(row'[d].status) = to
    /\ \A d \in Deliveries \ ds : Kept(d)
    /\ accepted' = accepted

LEMMA MovePromised ==
  ASSUME NEW ds \in SUBSET Deliveries, NEW from, NEW to, Moved(ds, from, to)
  PROVE  IF ds = {} THEN Stutters ELSE Promise!Move(ds, from, to)
  BY DEF Moved, Kept, Stutters, Promise!Move

LEMMA ClosePromised ==
  ASSUME NEW ds \in SUBSET Deliveries,
         Moved(ds, {"open"}, "discarded") \/ Moved(ds, {"open", "succeeded", "discarded"}, "deleted")
  PROVE  Promised
  BY MovePromised, StutterPromised DEF Promised, Promise!PNext, Promise!Discard, Promise!Delete

\* The phase of each status.
LEMMA Phases ==
  /\ Phase("absent") = "none" /\ Phase("deleted") = "deleted" /\ Phase("succeeded") = "succeeded"
  /\ \A status \in OpenStatuses : Phase(status) = "open"
  /\ Phase("queued") = "open" /\ Phase("failed") = "open" /\ Phase("in_progress") = "open"
  /\ Phase("dead") = "discarded" /\ Phase("cancelled") = "discarded"
  /\ \A status \in Statuses : Phase(status) = "none" <=> status = "absent"
  /\ \A status \in Statuses : Phase(status) = "deleted" <=> status = "deleted"
  /\ \A status \in Statuses :
        Phase(status) \in {"none", "open", "succeeded", "discarded", "deleted"}
  BY DEF Phase, OpenStatuses, PENDING_STATUSES, TERMINAL_STATUSES, Statuses

\* New rows of deliveries without one.
LEMMA CreatePromised ==
  ASSUME NEW ds \in SUBSET Deliveries, ds # {},
         \A d \in ds : row[d].status = "absent" /\ Phase(row'[d].status) \in {"open", "discarded"},
         \A d \in Deliveries \ ds : Kept(d), accepted' = accepted
  PROVE  Promised
  <1> DEFINE born == [d \in Deliveries |-> IF d \in ds THEN Phase(row'[d].status) ELSE "open"]
  <1>1. born \in [Deliveries -> {"open", "discarded"}]  OBVIOUS
  <1>2. [d \in Deliveries |-> Phase(row'[d].status)] =
          [d \in Deliveries |-> IF d \in ds THEN born[d]
                                ELSE [e \in Deliveries |-> Phase(row[e].status)][d]]
    BY DEF Kept
  <1>3. \A d \in ds : [e \in Deliveries |-> Phase(row[e].status)][d] = "none"
    <2>1. \A d \in ds : Phase(row[d].status) = "none"  BY Phases
    <2>2. QED  BY <2>1
  <1> HIDE DEF born
  <1>4. Promise!Create(ds)  BY <1>1, <1>2, <1>3 DEF Promise!Create
  <1>5. QED  BY <1>4 DEF Promised, Promise!PNext

\* One delivery that changes phase as the promise allows.
LEMMA OneRowPromised ==
  ASSUME TypeOK, NEW d \in Deliveries, accepted' = accepted,
         \A e \in Deliveries \ {d} : row'[e] = row[e],
         row[d].status \notin {"absent", "deleted"},
         \/ row'[d].status \in OpenStatuses
         \/ row'[d].status \in {"dead", "cancelled"}
         \/ row'[d].status = "succeeded" /\ d \in accepted
  PROVE  Promised
  <1>1. row[d].status \in Statuses  BY DEF TypeOK, Row
  <1>2. Phase(row[d].status) \in {"open", "succeeded", "discarded"}  BY <1>1, Phases
  <1>3. \A e \in Deliveries \ {d} : Kept(e)  BY DEF Kept
  <1>4. \/ Phase(row'[d].status) \in {"open", "discarded"}
        \/ Phase(row'[d].status) = "succeeded" /\ d \in accepted
    BY Phases
  <1>5. CASE Kept(d)  BY <1>3, <1>5, StutterPromised DEF Stutters
  <1>6. CASE ~Kept(d)
    <2>1. \/ Moved({d}, {"open", "discarded"}, "succeeded") /\ d \in accepted
          \/ Moved({d}, {"succeeded"}, "discarded") \/ Moved({d}, {"open"}, "discarded")
          \/ Moved({d}, {"succeeded", "discarded"}, "open")
      BY <1>2, <1>3, <1>4, <1>6 DEF Moved, Kept
    <2>2. QED
      BY <2>1, MovePromised DEF Promised, Promise!PNext, Promise!Succeed, Promise!Correct,
         Promise!Discard, Promise!Reopen
  <1>7. QED  BY <1>5, <1>6


LEMMA RequestsPromised ==
  ASSUME IInv, NEW r \in Requests, RequestStep(r)
  PROVE  Promised
  <1> USE DEF db, process, observed
  <1>0. /\ TypeOK /\ RequestInv /\ req[r] \in Request
        /\ \A d \in Deliveries : row[d] \in Row
    BY DEF IInv, TypeOK
  <1>1. CASE EnqueueRead(r) \/ Abort(r) \/ (\E e \in Deliveries : RetryRead(r, e))
             \/ (\E h \in Hooks : RotateRead(r, h))
    BY <1>1, StutterPromised DEF EnqueueRead, Abort, RetryRead, RotateRead, Stutters, Kept
  <1>2. CASE EnqueueCommit(r)
    <2> DEFINE ds == req[r].dels
    <2>1. ds \in SUBSET Deliveries /\ accepted' = accepted
      BY <1>0, <1>2 DEF Request, EnqueueCommit
    <2>2. \A d \in Deliveries : row'[d] = IF d \in ds THEN req[r].rows[d] ELSE row[d]
      BY <1>2 DEF EnqueueCommit
    <2>3. \A d \in ds : row[d].status = "absent" /\ row'[d].status \in {"queued", "dead"}
      BY <1>0, <1>2, <2>1, <2>2 DEF EnqueueCommit, RequestInv
    <2> HIDE DEF ds
    <2>4. \A d \in ds : Phase(row'[d].status) \in {"open", "discarded"}  BY <2>3, Phases
    <2>5. \A d \in Deliveries \ ds : Kept(d)  BY <2>2 DEF Kept
    <2>6. CASE ds = {}  BY <2>1, <2>5, <2>6, StutterPromised DEF Stutters
    <2>7. CASE ds # {}  BY <2>1, <2>3, <2>4, <2>5, <2>7, CreatePromised
    <2>8. QED  BY <2>6, <2>7
  <1>3. ASSUME NEW d \in Deliveries, RetryCommit(r, d) PROVE Promised
    <2>1. row[d].status \notin {"absent", "deleted"}  BY <1>0, <1>3 DEF RetryCommit, RequestInv
    <2>2. /\ row'[d] = Retried(row[d], req[r].rows[d], req[r].secret) /\ accepted' = accepted
          /\ \A e \in Deliveries \ {d} : row'[e] = row[e]
      BY <1>0, <1>3 DEF RetryCommit, TypeOK
    <2>3. req[r].rows[d] \in Row  BY <1>0 DEF Request
    <2>4. row'[d].status = row[d].status \/ row'[d].status = "queued"
      BY <1>0, <2>2, <2>3, RetriedFields DEF Same
    <2>5. CASE row'[d].status = row[d].status
      BY <2>2, <2>5, StutterPromised DEF Stutters, Kept
    <2>6. CASE row'[d].status = "queued"
      BY <1>0, <2>1, <2>2, <2>6, OneRowPromised DEF OpenStatuses, PENDING_STATUSES
    <2>7. QED  BY <2>4, <2>5, <2>6
  <1>4. ASSUME NEW h \in Hooks, RotateCommit(r, h) PROVE Promised
    <2>1. \A d \in Deliveries : row'[d].status = row[d].status
      BY <1>0, <1>4 DEF RotateCommit, Row
    <2>2. QED  BY <1>4, <2>1, StutterPromised DEF Stutters, Kept, RotateCommit
  <1>5. QED  BY <1>1, <1>2, <1>3, <1>4 DEF RequestStep

LEMMA ManagementPromised ==
  ASSUME IInv, ManagementStep
  PROVE  Promised
  <1> USE DEF db, process, observed
  <1>0. TypeOK /\ \A d \in Deliveries : row[d].status \in Statuses  BY DEF IInv, TypeOK, Row
  <1>1. ASSUME NEW ds \in SUBSET Deliveries, NEW status \in {"dead", "cancelled", "deleted"},
               row' = WithStatus(ds, status), accepted' = accepted,
               \A d \in ds : row[d].status # "absent",
               status = "deleted" \/ \A d \in ds : row[d].status \in PENDING_STATUSES
        PROVE  Promised
    <2> DEFINE gone == {d \in ds : row[d].status # "deleted"}
    <2>1. \A d \in Deliveries : IF d \in ds THEN row'[d].status = status ELSE row'[d] = row[d]
      BY <1>0, <1>1, WithStatusFields
    <2>2. CASE status = "deleted"
      <3>1. \A d \in gone : Phase(row[d].status) \in {"open", "succeeded", "discarded"}
        BY <1>0, <1>1, Phases
      <3>2. \A d \in gone : Phase(row'[d].status) = "deleted"  BY <2>1, <2>2, Phases
      <3>3. \A d \in Deliveries \ gone : Kept(d)  BY <2>1, <2>2 DEF Kept
      <3>4. QED  BY <1>1, <3>1, <3>2, <3>3, ClosePromised DEF Moved
    <2>3. CASE status # "deleted"
      <3>1. \A d \in ds : Phase(row[d].status) = "open"
        BY <1>1, <2>3, Phases DEF OpenStatuses
      <3>2. \A d \in ds : Phase(row'[d].status) = "discarded"  BY <2>1, <2>3, Phases
      <3>3. \A d \in Deliveries \ ds : Kept(d)  BY <2>1 DEF Kept
      <3>4. QED  BY <1>1, <3>1, <3>2, <3>3, ClosePromised DEF Moved
    <2>4. QED  BY <2>2, <2>3
  <1>2. CASE \E h \in Hooks : Deactivate(h)
    BY <1>1, <1>2 DEF Deactivate, RowsOf, RowsWith, PENDING_STATUSES
  <1>3. CASE (\E h \in Hooks : DeleteHook(h)) \/ DeleteOwner
    <2>1. ASSUME NEW h \in Hooks, DeleteHook(h) PROVE Promised
      BY <1>1, <2>1 DEF DeleteHook, RowsOf, RowsWith
    <2>2. ASSUME DeleteOwner PROVE Promised
      BY <1>1, <2>2 DEF DeleteOwner, RowsWith
    <2>3. QED  BY <1>3, <2>1, <2>2
  <1>4. CASE revoke_all
    BY <1>1, <1>4 DEF revoke_all, RowsWith, PENDING_STATUSES
  <1>5. CASE (\E h \in Hooks : CreateHook(h) \/ Activate(h) \/ SetUrl(h))
             \/ (\E state \in {"active", "inactive"} : SetOwnerActive(state))
    BY <1>5, StutterPromised DEF CreateHook, Activate, SetUrl, SetOwnerActive, Stutters, Kept
  <1>6. QED  BY <1>2, <1>3, <1>4, <1>5 DEF ManagementStep

LEMMA RowsPromised ==
  ASSUME IInv, NEW d \in Deliveries, TestStart(d) \/ Start(d) \/ BackoffEnds(d) \/ ClaimTimesOut(d)
  PROVE  Promised
  <1> USE DEF db, process, observed
  <1>0. TypeOK /\ row[d] \in Row  BY DEF IInv, TypeOK
  <1>1. CASE TestStart(d)
    <2> DEFINE new == delivery_row(HookOf[d], 1)
    <2>1. /\ new \in Row /\ row[d].status = "absent" /\ accepted' = accepted
          /\ \/ row' = [row EXCEPT ![d] = [new EXCEPT !.status = "in_progress", !.attempts = 1]]
             \/ row' = [row EXCEPT ![d] = new]
          /\ new.status \in {"queued", "dead"}
      BY <1>0, <1>1, DeliveryRowType, HookOfAssumption DEF TestStart, Fresh
    <2> HIDE DEF new
    <2>2. row'[d].status \in {"in_progress", "queued", "dead"}
      BY <1>0, <2>1, TestRowFields DEF TypeOK
    <2>3. \A e \in Deliveries \ {d} : Kept(e)  BY <1>0, <2>1 DEF TypeOK, Kept
    <2>4. Phase(row'[d].status) \in {"open", "discarded"}  BY <2>2, Phases
    <2> DEFINE ds == {d}
    <2>5. /\ ds \in SUBSET Deliveries /\ ds # {} /\ \A e \in Deliveries \ ds : Kept(e)
          /\ \A e \in ds : row[e].status = "absent" /\ Phase(row'[e].status) \in {"open", "discarded"}
      BY <2>1, <2>3, <2>4
    <2> HIDE DEF ds
    <2>6. QED  BY <2>1, <2>5, CreatePromised
  <1>2. CASE Start(d)
    <2>1. \/ row' = row
          \/ row[d].status = "in_progress" /\ row' = [row EXCEPT ![d].status = "dead"]
      BY <1>2 DEF Start
    <2>2. accepted' = accepted  BY <1>2 DEF Start
    <2>3. CASE row' = row  BY <2>2, <2>3, StutterPromised DEF Stutters, Kept
    <2>4. CASE row[d].status = "in_progress" /\ row' = [row EXCEPT ![d].status = "dead"]
      <3>1. row'[d].status = "dead" /\ \A e \in Deliveries \ {d} : row'[e] = row[e]
        BY <1>0, <2>4 DEF TypeOK, Row
      <3>2. QED  BY <1>0, <2>2, <2>4, <3>1, OneRowPromised
    <2>5. QED  BY <2>1, <2>3, <2>4
  <1>3. CASE BackoffEnds(d) \/ ClaimTimesOut(d)
    <2>1. \A e \in Deliveries : row'[e].status = row[e].status
      BY <1>0, <1>3 DEF BackoffEnds, ClaimTimesOut, TypeOK, Row
    <2>2. accepted' = accepted  BY <1>3 DEF BackoffEnds, ClaimTimesOut
    <2>3. QED  BY <2>1, <2>2, StutterPromised DEF Stutters, Kept
  <1>4. QED  BY <1>1, <1>2, <1>3

LEMMA SendersPromised ==
  ASSUME IInv, NEW s \in Senders, NEW d \in Deliveries, SenderStep(s, d)
  PROVE  Promised
  <1> USE DEF db, process, observed
  <1>0. TypeOK /\ DeliveryInv(d) /\ row[d] \in Row  BY DEF IInv, TypeOK
  <1>1. job[s][d] # "none"
    BY DEF SenderStep, Answer, Reload, Store, JobFails, Answers, Verdicts
  <1>2. row[d].status # "absent"  BY <1>0, <1>1 DEF DeliveryInv, Unused, Held
  <1>3. CASE Answer(s, d)
    <2>1. row' = row /\ accepted' \in {accepted, accepted \cup {d}}  BY <1>3 DEF Answer
    <2>2. CASE accepted' = accepted  BY <2>1, <2>2, StutterPromised DEF Stutters, Kept
    <2>3. CASE accepted' = accepted \cup {d}
      <3>1. Phase(row[d].status) # "none"  BY <1>0, <1>2, Phases DEF Row
      <3>2. Promise!Accept(d)  BY <2>1, <2>3, <3>1 DEF Promise!Accept
      <3>3. QED  BY <3>2 DEF Promised, Promise!PNext
    <2>4. QED  BY <2>1, <2>2, <2>3
  <1>4. CASE Reload(s, d) \/ JobFails(s, d)
    BY <1>4, StutterPromised DEF Reload, JobFails, Stutters, Kept
  <1>5. CASE Store(s, d)
    <2>1. job[s][d] \in Verdicts /\ accepted' = accepted  BY <1>5 DEF Store
    <2>2. CASE row[d].status = "deleted"
      BY <1>5, <2>2, StutterPromised DEF Store, Stutters, Kept
    <2>3. CASE row[d].status # "deleted"
      <3>1. row'[d] = Saved(row[d], job[s][d]) /\ \A e \in Deliveries \ {d} : row'[e] = row[e]
        BY <1>0, <1>5, <2>3 DEF Store, TypeOK
      <3>2. \/ row'[d].status \in {"dead", "failed"}
            \/ row'[d].status = "succeeded" /\ job[s][d] = "save_succeeded"
        BY <1>0, <2>1, <3>1, SavedFields DEF Verdicts
      <3>3. job[s][d] = "save_succeeded" => d \in accepted
        BY <1>0 DEF DeliveryInv, Sourced, Confirmed
      <3>4. QED
        BY <1>0, <1>2, <2>1, <2>3, <3>1, <3>2, <3>3, OneRowPromised DEF OpenStatuses, PENDING_STATUSES
    <2>4. QED  BY <2>2, <2>3
  <1>6. QED  BY <1>3, <1>4, <1>5 DEF SenderStep

LEMMA WorkerPromised ==
  ASSUME IInv, WorkerStep \/ Crash \/ Restart
  PROVE  Promised
  <1> USE DEF db, process, observed
  <1>0. /\ TypeOK /\ \A d \in Deliveries : /\ row[d] \in Row /\ row[d].status \in Statuses
                                           /\ DeliveryInv(d)
    BY DEF IInv, TypeOK, Row
  <1>1. CASE HousekeepingDelete
    <2> DEFINE gone == {d \in purge : row[d].status # "deleted"}
    <2>1. /\ purge \in SUBSET Deliveries /\ accepted' = accepted
          /\ \A d \in purge : row[d].status # "absent"
      BY <1>0, <1>1 DEF HousekeepingDelete, TypeOK, DeliveryInv, Unused
    <2>2. \A d \in Deliveries : IF d \in purge THEN row'[d].status = "deleted" ELSE row'[d] = row[d]
      BY <1>0, <1>1, <2>1, WithStatusFields DEF HousekeepingDelete
    <2>3. \A d \in gone : Phase(row[d].status) \in {"open", "succeeded", "discarded"}
      BY <1>0, <2>1, Phases
    <2>4. \A d \in gone : Phase(row'[d].status) = "deleted"  BY <2>1, <2>2, Phases
    <2>5. \A d \in Deliveries \ gone : Kept(d)  BY <2>2 DEF Kept
    <2>6. QED  BY <2>1, <2>3, <2>4, <2>5, ClosePromised DEF Moved
  <1>2. CASE reset_in_progress_on_startup \/ reset_stale
    <2>1. PICK ds \in SUBSET RowsWith({"in_progress"}) : row' = ResetRows(ds)
      BY <1>2 DEF reset_in_progress_on_startup, reset_stale
    <2>2. ds \in SUBSET Deliveries /\ \A d \in ds : row[d].status = "in_progress"
      BY <2>1 DEF RowsWith
    <2>3. \A d \in Deliveries :
             IF d \notin ds THEN row'[d] = row[d]
             ELSE row'[d].status = IF row[d].attempts >= row[d].max_attempts THEN "dead" ELSE "failed"
      BY <1>0, <2>1, <2>2, ResetRowsFields
    <2> DEFINE dead == {d \in ds : row'[d].status = "dead"}
    <2>4. \A d \in dead : Phase(row[d].status) = "open" /\ Phase(row'[d].status) = "discarded"
      BY <2>2, Phases
    <2>5. \A d \in Deliveries \ dead : Kept(d)  BY <2>2, <2>3, Phases DEF Kept
    <2>6. accepted' = accepted  BY <1>2 DEF reset_in_progress_on_startup, reset_stale
    <2>7. dead \in SUBSET Deliveries  BY <2>2
    <2> HIDE DEF dead
    <2>8. QED  BY <2>4, <2>5, <2>6, <2>7, ClosePromised DEF Moved
  <1>3. CASE claim_due
    <2>1. PICK ds \in SUBSET Due :
             row' = [d \in Deliveries |-> IF d \in ds THEN Claimed(row[d]) ELSE row[d]]
      BY <1>3 DEF claim_due
    <2>2. \A d \in ds : row[d].status \in OpenStatuses /\ d \in Deliveries
      BY <2>1 DEF Due, RowsWith, OpenStatuses
    <2>3. \A d \in Deliveries :
             IF d \in ds THEN row'[d].status = "in_progress" ELSE row'[d] = row[d]
      BY <1>0, <2>1, ClaimedFields
    <2>4. \A d \in Deliveries : Kept(d)  BY <2>2, <2>3, Phases DEF Kept
    <2>5. QED  BY <1>3, <2>4, StutterPromised DEF claim_due, Stutters
  <1>4. CASE HousekeepingSelect \/ RoundEnds \/ LoopError \/ Crash \/ Restart
    BY <1>4, StutterPromised DEF HousekeepingSelect, RoundEnds, LoopError, Crash, Restart, Stutters, Kept
  <1>5. QED  BY <1>1, <1>2, <1>3, <1>4 DEF WorkerStep

\* Safety of the promise: every step of the table, the worker, the requests and the
\* management routes creates, settles, reopens or deletes deliveries as the promise
\* allows, and a delivery succeeds only after its receiver processed it.  (That open
\* deliveries are settled in the end is checked, not proved.)
THEOREM OutboxKeepsPromise == Spec => Promise!PInit /\ [][Promise!PNext]_Promise!pvars
  <1>1. Init => Promise!PInit
    <2>1. ASSUME Init PROVE \A d \in Deliveries : Phase(row[d].status) = "none"
      BY <2>1, Phases DEF Init, Absent
    <2>2. QED  BY <2>1 DEF Init, Promise!PInit
  <1>2. ASSUME IInv, [Next]_vars PROVE Promised
    <2>1. CASE UNCHANGED vars
      BY <2>1, StutterPromised DEF vars, db, observed, Stutters, Kept
    <2>2. CASE Next
      BY <1>2, <2>2, RequestsPromised, ManagementPromised, RowsPromised, SendersPromised,
         WorkerPromised DEF Next
    <2>3. QED  BY <1>2, <2>1, <2>2
  <1>3. IInv /\ [Next]_vars => [Promise!PNext]_Promise!pvars  BY <1>2 DEF Promised
  <1>4. QED  BY <1>1, <1>3, InductiveInvariant, PTL DEF Spec

=============================================================================
