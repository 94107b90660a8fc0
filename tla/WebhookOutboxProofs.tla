------------------------ MODULE WebhookOutboxProofs ------------------------
(***************************************************************************)
(* Proofs about WebhookOutbox, for every set of webhooks, deliveries and   *)
(* requests and every value of the other constants.                        *)
(***************************************************************************)
EXTENDS WebhookOutbox, TLAPS

\* A row built for a new delivery is a row.
LEMMA DeliveryRowType ==
  ASSUME TypeOK, NEW h \in Hooks, NEW budget \in Nat
  PROVE  /\ delivery_row(h, budget) \in Row
         /\ delivery_row(h, budget).status \in {"queued", "dead"}
  BY DEF TypeOK, delivery_row, Absent, Row, Hook, Statuses, OpenStatuses, PENDING_STATUSES,
         TERMINAL_STATUSES, secret_readable, url_readable

\* Setting the status of some rows leaves a table of rows.
LEMMA WithStatusType ==
  ASSUME TypeOK, NEW ds \in SUBSET Deliveries, NEW status \in Statuses
  PROVE  WithStatus(ds, status) \in [Deliveries -> Row]
  BY DEF TypeOK, WithStatus, Row

LEMMA ResetRowsType ==
  ASSUME TypeOK, NEW ds \in SUBSET Deliveries
  PROVE  ResetRows(ds) \in [Deliveries -> Row]
  <1>1. "dead" \in Statuses /\ "failed" \in Statuses
    BY DEF Statuses, OpenStatuses, PENDING_STATUSES, TERMINAL_STATUSES
  <1>2. QED  BY <1>1 DEF TypeOK, ResetRows, Row

LEMMA NoRequestType == NoRequest \in Request
  BY DEF NoRequest, Request, Requesting, Absent, Row, Statuses

\* Moving one job of one sender leaves a table of job states.
LEMMA JobToType ==
  ASSUME TypeOK, NEW s \in Senders, NEW d \in Deliveries, NEW state \in JobStates, JobTo(s, d, state)
  PROVE  job' \in [Senders -> [Deliveries -> JobStates]]
  BY DEF TypeOK, JobTo

\* Every step keeps the types.
LEMMA TypeStep == ASSUME TypeOK, [Next]_vars PROVE TypeOK'
  <1> USE DEF db, process, observed
  <1>1. ASSUME NEW r \in Requests, EnqueueRead(r) PROVE TypeOK'
    <2>1. PICK ds \in SUBSET Deliveries \ {{}} :
             req' = [req EXCEPT ![r] =
                 [NoRequest EXCEPT !.op = "enqueue", !.dels = ds,
                                   !.rows = [d \in Deliveries |->
                                      IF d \in ds THEN delivery_row(HookOf[d], MAX_ATTEMPTS)
                                                  ELSE Absent]]]
      BY <1>1 DEF EnqueueRead
    <2>2. \A d \in Deliveries : delivery_row(HookOf[d], MAX_ATTEMPTS) \in Row /\ Absent \in Row
      BY DeliveryRowType, HookOfAssumption, BoundAssumption, NoRequestType
         DEF Row, Absent, Statuses
    <2> DEFINE rows == [d \in Deliveries |->
                           IF d \in ds THEN delivery_row(HookOf[d], MAX_ATTEMPTS) ELSE Absent]
    <2>3. rows \in [Deliveries -> Row]  BY <2>2
    <2> HIDE DEF rows
    <2>4. req' = [req EXCEPT ![r] = [NoRequest EXCEPT !.op = "enqueue", !.dels = ds, !.rows = rows]]
      BY <2>1 DEF rows
    <2>5. [NoRequest EXCEPT !.op = "enqueue", !.dels = ds, !.rows = rows] \in Request
      BY <2>3, NoRequestType DEF NoRequest, Request, Requesting
    <2>6. req' \in [Requests -> Request]  BY <2>4, <2>5 DEF TypeOK
    <2>7. QED  BY <1>1, <2>6 DEF EnqueueRead, TypeOK
  <1>2. ASSUME NEW r \in Requests, EnqueueCommit(r) PROVE TypeOK'
    BY <1>2, NoRequestType DEF EnqueueCommit, TypeOK, Request
  <1>3. ASSUME NEW r \in Requests, Abort(r) PROVE TypeOK'
    BY <1>3, NoRequestType DEF Abort, TypeOK
  <1>4. ASSUME NEW r \in Requests, NEW d \in Deliveries, RetryRead(r, d) PROVE TypeOK'
    <2>1. [NoRequest.rows EXCEPT ![d] = row[d]] \in [Deliveries -> Row]
      BY NoRequestType DEF Request, TypeOK
    <2>2. hook[HookOf[d]].secret \in Nat
      BY HookOfAssumption DEF TypeOK, Hook
    <2>3. [NoRequest EXCEPT !.op = "retry", !.dels = {d}, !.secret = hook[HookOf[d]].secret,
                            !.rows = [NoRequest.rows EXCEPT ![d] = row[d]]] \in Request
      BY <2>1, <2>2, NoRequestType DEF NoRequest, Request, Requesting
    <2>4. req' \in [Requests -> Request]  BY <1>4, <2>3 DEF RetryRead, TypeOK
    <2>5. QED  BY <1>4, <2>4 DEF RetryRead, TypeOK
  <1>5. ASSUME NEW r \in Requests, NEW d \in Deliveries, RetryCommit(r, d) PROVE TypeOK'
    <2>1. req[r].rows[d] \in Row /\ req[r].secret \in Nat  BY DEF TypeOK, Request
    <2>2. Retried(row[d], req[r].rows[d], req[r].secret) \in Row
      <3>1. row[d] \in Row /\ "queued" \in Statuses
        BY DEF TypeOK, Statuses, OpenStatuses, PENDING_STATUSES
      <3> DEFINE loaded == req[r].rows[d]
                 budget == IF loaded.max_attempts = loaded.attempts + 1
                           THEN row[d].max_attempts ELSE loaded.attempts + 1
                 signature == IF loaded.signature = req[r].secret
                              THEN row[d].signature ELSE req[r].secret
      <3>2. budget \in Nat /\ signature \in Nat  BY <2>1, <3>1 DEF Row
      <3>3. Retried(row[d], loaded, req[r].secret) =
              IF loaded.status = "failed"
              THEN [row[d] EXCEPT !.next_attempt_at = "now"]
              ELSE [row[d] EXCEPT !.status = "queued", !.max_attempts = budget,
                                  !.next_attempt_at = "now", !.signature = signature]
        BY <3>1 DEF Retried, Row
      <3> HIDE DEF loaded, budget, signature
      <3>4. [row[d] EXCEPT !.status = "queued", !.max_attempts = budget,
                           !.next_attempt_at = "now", !.signature = signature] \in Row
        BY <3>1, <3>2 DEF Row
      <3>5. [row[d] EXCEPT !.next_attempt_at = "now"] \in Row
        BY <3>1 DEF Row
      <3>6. QED  BY <3>3, <3>4, <3>5 DEF loaded
    <2>3. row' \in [Deliveries -> Row]  BY <1>5, <2>2 DEF RetryCommit, TypeOK
    <2>4. retried' \in SUBSET Deliveries  BY <1>5 DEF RetryCommit, TypeOK
    <2>5. req' \in [Requests -> Request]  BY <1>5, NoRequestType DEF RetryCommit, TypeOK
    <2>6. QED  BY <1>5, <2>3, <2>4, <2>5 DEF RetryCommit, TypeOK
  <1>6. ASSUME NEW r \in Requests, NEW h \in Hooks, RotateRead(r, h) PROVE TypeOK'
    <2> DEFINE ds == RowsOf(h) \cap RowsWith(PENDING_STATUSES)
    <2>a. ds \in SUBSET Deliveries /\ secrets' \in Nat
      BY <1>6 DEF RowsOf, RotateRead, TypeOK
    <2> HIDE DEF ds
    <2>1. [NoRequest EXCEPT !.op = "rotate", !.hooks = {h}, !.secret = secrets', !.dels = ds]
            \in Request
      BY <2>a, NoRequestType DEF NoRequest, Request, Requesting
    <2>2. req' \in [Requests -> Request]  BY <1>6, <2>1 DEF RotateRead, TypeOK, ds
    <2>3. QED  BY <1>6, <2>2 DEF RotateRead, TypeOK
  <1>7. ASSUME NEW r \in Requests, NEW h \in Hooks, RotateCommit(r, h) PROVE TypeOK'
    <2>1. req[r].secret \in Nat  BY DEF TypeOK, Request
    <2>2. row' \in [Deliveries -> Row]  BY <1>7, <2>1 DEF RotateCommit, TypeOK, Row
    <2>3. hook' \in [Hooks -> Hook]  BY <1>7, <2>1 DEF RotateCommit, TypeOK, Hook
    <2>4. req' \in [Requests -> Request]  BY <1>7, NoRequestType DEF RotateCommit, TypeOK
    <2>5. QED  BY <1>7, <2>2, <2>3, <2>4 DEF RotateCommit, TypeOK
  <1>8. ASSUME NEW h \in Hooks, CreateHook(h) \/ Activate(h) \/ SetUrl(h) PROVE TypeOK'
    <2>1. hook' \in [Hooks -> Hook]
      BY <1>8 DEF CreateHook, Activate, SetUrl, TypeOK, Hook
    <2>2. QED  BY <1>8, <2>1 DEF CreateHook, Activate, SetUrl, TypeOK
  <1>9. ASSUME NEW h \in Hooks, Deactivate(h) \/ DeleteHook(h) PROVE TypeOK'
    <2>1. hook' \in [Hooks -> Hook]
      BY <1>9 DEF Deactivate, DeleteHook, TypeOK, Hook
    <2>2. row' \in [Deliveries -> Row]
      BY <1>9, WithStatusType
         DEF Deactivate, DeleteHook, RowsOf, Statuses, TERMINAL_STATUSES
    <2>3. QED  BY <1>9, <2>1, <2>2 DEF Deactivate, DeleteHook, TypeOK
  <1>10. ASSUME revoke_all \/ DeleteOwner \/ \E state \in {"active", "inactive"} : SetOwnerActive(state)
         PROVE TypeOK'
    <2>1. CASE revoke_all
      <3>1. hook' \in [Hooks -> Hook]  BY <2>1 DEF revoke_all, TypeOK, Hook
      <3>2. row' \in [Deliveries -> Row]
        BY <2>1, WithStatusType DEF revoke_all, RowsWith, Statuses, TERMINAL_STATUSES
      <3>3. QED  BY <2>1, <3>1, <3>2 DEF revoke_all, TypeOK
    <2>2. CASE DeleteOwner
      <3>1. hook' \in [Hooks -> Hook]  BY <2>2 DEF DeleteOwner, TypeOK, Hook
      <3>2. row' \in [Deliveries -> Row]
        BY <2>2, WithStatusType DEF DeleteOwner, RowsWith, Statuses
      <3>3. QED  BY <2>2, <3>1, <3>2 DEF DeleteOwner, TypeOK
    <2>3. CASE \E state \in {"active", "inactive"} : SetOwnerActive(state)
      BY <2>3 DEF SetOwnerActive, TypeOK
    <2>4. QED  BY <1>10, <2>1, <2>2, <2>3
  <1>11. ASSUME NEW d \in Deliveries, TestStart(d) PROVE TypeOK'
    <2> DEFINE new == delivery_row(HookOf[d], 1)
    <2>1. new \in Row  BY DeliveryRowType, HookOfAssumption
    <2> HIDE DEF new
    <2>2. [new EXCEPT !.status = "in_progress", !.attempts = 1] \in Row
      BY <2>1 DEF Row, Statuses, OpenStatuses
    <2>3. row' \in [Deliveries -> Row]  BY <1>11, <2>1, <2>2 DEF TestStart, TypeOK, new
    <2>4. job' \in [Senders -> [Deliveries -> JobStates]]
      BY <1>11, JobToType DEF TestStart, TypeOK, JobStates, Senders
    <2>5. QED  BY <1>11, <2>3, <2>4 DEF TestStart, TypeOK
  <1>12. ASSUME NEW d \in Deliveries, Start(d) PROVE TypeOK'
    <2>1. row' \in [Deliveries -> Row]
      BY <1>12 DEF Start, TypeOK, Row, Statuses, TERMINAL_STATUSES
    <2>2. job' \in [Senders -> [Deliveries -> JobStates]]
      BY <1>12, JobToType DEF Start, JobStates, Senders
    <2>3. QED  BY <1>12, <2>1, <2>2 DEF Start, TypeOK
  <1>13. ASSUME NEW d \in Deliveries, BackoffEnds(d) \/ ClaimTimesOut(d) PROVE TypeOK'
    <2>a. row[d] \in Row  BY DEF TypeOK
    <2>b. /\ [row[d] EXCEPT !.next_attempt_at = "now"] \in Row
          /\ [row[d] EXCEPT !.last_attempt_at = "stale"] \in Row
      BY <2>a DEF Row
    <2>1. row' \in [Deliveries -> Row]
      BY <1>13, <2>b DEF BackoffEnds, ClaimTimesOut, TypeOK
    <2>2. QED  BY <1>13, <2>1 DEF BackoffEnds, ClaimTimesOut, TypeOK
  <1>14. ASSUME NEW s \in Senders, NEW d \in Deliveries, Answer(s, d) \/ Reload(s, d) \/ JobFails(s, d)
         PROVE TypeOK'
    <2>1. job' \in [Senders -> [Deliveries -> JobStates]]
      BY <1>14, JobToType DEF Answer, Reload, JobFails, JobStates, Answers, Verdicts, Verdict
    <2>2. QED  BY <1>14, <2>1 DEF Answer, Reload, JobFails, TypeOK
  <1>15. ASSUME NEW s \in Senders, NEW d \in Deliveries, Store(s, d) PROVE TypeOK'
    <2>1. job' \in [Senders -> [Deliveries -> JobStates]]
      BY <1>15, JobToType DEF Store, JobStates
    <2>2. Saved(row[d], job[s][d]) \in Row
      BY <1>15 DEF Store, Verdicts, Saved, TypeOK, Row, Statuses, OpenStatuses, PENDING_STATUSES,
                   TERMINAL_STATUSES
    <2>3. row' \in [Deliveries -> Row]  BY <1>15, <2>2 DEF Store, TypeOK
    <2>4. QED  BY <1>15, <2>1, <2>3 DEF Store, TypeOK
  <1>16. ASSUME HousekeepingSelect \/ HousekeepingDelete \/ RoundEnds \/ LoopError PROVE TypeOK'
    <2>1. row' \in [Deliveries -> Row]
      <3>1. CASE HousekeepingDelete
        BY <3>1, WithStatusType DEF HousekeepingDelete, TypeOK, Statuses
      <3>2. CASE HousekeepingSelect \/ RoundEnds \/ LoopError
        BY <3>2 DEF HousekeepingSelect, RoundEnds, LoopError, TypeOK
      <3>3. QED  BY <1>16, <3>1, <3>2
    <2>2. QED
      BY <1>16, <2>1 DEF HousekeepingSelect, HousekeepingDelete, RoundEnds, LoopError, WorkerTo,
                         RowsWith, TypeOK
  <1>17. ASSUME reset_in_progress_on_startup \/ reset_stale PROVE TypeOK'
    <2>1. row' \in [Deliveries -> Row]
      BY <1>17, ResetRowsType DEF reset_in_progress_on_startup, reset_stale, RowsWith
    <2>2. QED  BY <1>17, <2>1 DEF reset_in_progress_on_startup, reset_stale, WorkerTo, TypeOK
  <1>18. ASSUME claim_due PROVE TypeOK'
    <2>a. \A d \in Deliveries : row[d] \in Row /\ Claimed(row[d]) \in Row
      <3>1. ASSUME NEW r \in Row PROVE Claimed(r) \in Row
        <4>1. r.attempts + 1 \in Nat  BY DEF Row
        <4>2. QED  BY <4>1 DEF Claimed, Row, Statuses, OpenStatuses
      <3>2. QED  BY <3>1 DEF TypeOK
    <2>b. PICK ds \in SUBSET Due :
             /\ row' = [d \in Deliveries |-> IF d \in ds THEN Claimed(row[d]) ELSE row[d]]
             /\ job' = [job EXCEPT !["worker"] =
                          [d \in Deliveries |-> IF d \in ds THEN "claimed" ELSE job["worker"][d]]]
      BY <1>18 DEF claim_due
    <2>1. row' \in [Deliveries -> Row]
      BY <2>a, <2>b
    <2>2. job' \in [Senders -> [Deliveries -> JobStates]]
      <3>1. [d \in Deliveries |-> IF d \in ds THEN "claimed" ELSE job["worker"][d]]
              \in [Deliveries -> JobStates]
        BY DEF TypeOK, JobStates, Senders
      <3>2. QED  BY <2>b, <3>1 DEF TypeOK
    <2>3. worker' \in {"top", "busy"}  BY <1>18 DEF claim_due
    <2>4. QED  BY <1>18, <2>1, <2>2, <2>3 DEF claim_due, TypeOK
  <1>19. ASSUME Crash PROVE TypeOK'
    BY <1>19, NoRequestType DEF Crash, TypeOK, NoJobs, JobStates
  <1>20. ASSUME Restart PROVE TypeOK'
    <2>a. \A h \in Hooks : [hook[h] EXCEPT !.secret = 0, !.url = "unreadable"] \in Hook
      BY DEF TypeOK, Hook
    <2>1. hook' \in [Hooks -> Hook]  BY <1>20, <2>a DEF Restart, TypeOK
    <2>2. QED  BY <1>20, <2>1 DEF Restart, WorkerTo, TypeOK
  <1>21. CASE UNCHANGED vars
    BY <1>21 DEF vars, TypeOK
  <1>22. QED
    BY <1>1, <1>2, <1>3, <1>4, <1>5, <1>6, <1>7, <1>8, <1>9, <1>10, <1>11, <1>12, <1>13, <1>14,
       <1>15, <1>16, <1>17, <1>18, <1>19, <1>20, <1>21
       DEF Next, RequestStep, ManagementStep, SenderStep, WorkerStep

\* TypeOK is an invariant: the program keeps the types of the table, of its
\* requests and of its senders.
THEOREM TypeCorrect == Spec => []TypeOK
  <1>1. Init => TypeOK
    <2>1. Absent \in Row  BY DEF Absent, Row, Statuses
    <2>2. ASSUME Init PROVE TypeOK
      <3>1. hook \in [Hooks -> Hook]  BY <2>2 DEF Init, Hook
      <3>2. job \in [Senders -> [Deliveries -> JobStates]]
        BY <2>2 DEF Init, NoJobs, JobStates
      <3>3. QED  BY <2>1, <2>2, <3>1, <3>2, NoRequestType DEF Init, TypeOK
    <2>3. QED  BY <2>2
  <1>2. QED  BY <1>1, TypeStep, PTL DEF Spec

------------------------------------------------------------------------------
(* The inductive invariant                                                   *)

\* A new row is reserved by one request until its commit; what a retry or a
\* rotation read exists.
RequestInv ==
    \A r \in Requests :
       /\ req[r].op = "idle" => req[r].dels = {}
       /\ req[r].op = "enqueue" =>
             \A d \in req[r].dels :
                /\ row[d].status = "absent" /\ req[r].rows[d].status \in {"queued", "dead"}
                /\ \A q \in Requests \ {r} : d \notin req[q].dels
       /\ req[r].op \in {"retry", "rotate"} => \A d \in req[r].dels : row[d].status # "absent"

\* The worker holds rows only during a round, and nobody does when no process runs.
WorkerInv ==
    /\ worker # "busy" => Idle("worker")
    /\ worker = "down" => Idle("test")

\* Nothing happens to a delivery before its row is committed.
Unused(d) == row[d].status = "absent" => d \notin accepted /\ d \notin purge /\ ~Held(d)

\* A success, stored or still held by a sender, comes from the receiver.
Sourced(d) == row[d].status = "succeeded" \/ (\E s \in Senders : Confirmed(s, d)) => d \in accepted

\* NoConcurrentSend and NoUnexplainedResend, for one delivery.
OneSender(d) == d \notin retried => job["worker"][d] = "none" \/ job["test"][d] = "none"
Explained(d) == d \in accepted \ (lost \cup retried) /\ row[d].status \in OpenStatuses =>
                   \E s \in Senders : Confirmed(s, d)

\* As long as no finished row was reopened, a row a sender holds stays the
\* sender's: it can be deleted, and a test row be ended by the startup reset, but
\* never becomes claimable.
Owned(d) ==
    d \notin retried =>
       /\ job["worker"][d] # "none" =>
             \/ row[d].status = "deleted"
             \/ row[d].status = "in_progress" /\ row[d].last_attempt_at = "recent"
       /\ job["test"][d] # "none" =>
             /\ job["test"][d] # "save_failed"
             /\ \/ row[d].status \in {"dead", "deleted"}
                \/ /\ row[d].status = "in_progress" /\ row[d].last_attempt_at = "recent"
                   /\ row[d].attempts >= row[d].max_attempts

DeliveryInv(d) == Unused(d) /\ Sourced(d) /\ OneSender(d) /\ Explained(d) /\ Owned(d)

IInv == TypeOK /\ RequestInv /\ WorkerInv /\ \A d \in Deliveries : DeliveryInv(d)

------------------------------------------------------------------------------
(* Facts about the rows the operators of the model return                    *)

Same(r, q) == /\ r.status = q.status /\ r.last_attempt_at = q.last_attempt_at
              /\ r.attempts = q.attempts /\ r.max_attempts = q.max_attempts

LEMMA StatusFields ==
  ASSUME NEW r \in Row, NEW status
  PROVE  /\ [r EXCEPT !.status = status].status = status
         /\ [r EXCEPT !.status = status].last_attempt_at = r.last_attempt_at
         /\ [r EXCEPT !.status = status].attempts = r.attempts
         /\ [r EXCEPT !.status = status].max_attempts = r.max_attempts
  BY DEF Row

LEMMA WithStatusFields ==
  ASSUME TypeOK, NEW ds \in SUBSET Deliveries, NEW status, row' = WithStatus(ds, status),
         NEW d \in Deliveries
  PROVE  IF d \in ds THEN row'[d].status = status ELSE row'[d] = row[d]
  <1>1. row[d] \in Row  BY DEF TypeOK
  <1>2. row'[d] = IF d \in ds THEN [row[d] EXCEPT !.status = status] ELSE row[d]
    BY DEF WithStatus
  <1>3. QED  BY <1>1, <1>2, StatusFields

LEMMA ResetRowsFields ==
  ASSUME TypeOK, NEW ds \in SUBSET Deliveries, row' = ResetRows(ds), NEW d \in Deliveries
  PROVE  IF d \notin ds THEN row'[d] = row[d]
         ELSE row'[d].status = IF row[d].attempts >= row[d].max_attempts THEN "dead" ELSE "failed"
  <1>1. row[d] \in Row  BY DEF TypeOK
  <1>2. QED  BY <1>1 DEF ResetRows, Row

LEMMA ClaimedFields ==
  ASSUME NEW r \in Row
  PROVE  Claimed(r).status = "in_progress" /\ Claimed(r).last_attempt_at = "recent"
  BY DEF Claimed, Row

LEMMA SavedFields ==
  ASSUME NEW r \in Row, NEW verdict \in Verdicts
  PROVE  Saved(r, verdict).status = CASE verdict = "save_succeeded" -> "succeeded"
                                      [] verdict = "save_dead" -> "dead"
                                      [] verdict = "save_failed" -> "failed"
  BY DEF Saved, Verdicts, Row

LEMMA RetriedFields ==
  ASSUME NEW now \in Row, NEW loaded \in Row, NEW secret
  PROVE  IF loaded.status = "failed" THEN Same(Retried(now, loaded, secret), now)
         ELSE Retried(now, loaded, secret).status = "queued"
  BY DEF Same, Retried, Row

LEMMA TestRowFields ==
  ASSUME NEW r \in Row
  PROVE  LET t == [r EXCEPT !.status = "in_progress", !.attempts = 1] IN
         /\ t.status = "in_progress" /\ t.attempts = 1 /\ t.max_attempts = r.max_attempts
         /\ t.last_attempt_at = r.last_attempt_at
  BY DEF Row

LEMMA NewRowFields ==
  ASSUME NEW h, NEW budget
  PROVE  /\ delivery_row(h, budget).status \in {"queued", "dead"}
         /\ delivery_row(h, budget).max_attempts = budget
         /\ delivery_row(h, budget).last_attempt_at = "recent"
  BY DEF delivery_row, Absent

------------------------------------------------------------------------------
(* What keeps the parts of the invariant                                     *)

\* A delivery whose row keeps the fields the invariant reads, and whose senders
\* do not move, keeps its part of the invariant.
LEMMA Untouched ==
  ASSUME NEW d \in Deliveries, DeliveryInv(d), Same(row'[d], row[d]),
         \A s \in Senders : job'[s][d] = job[s][d],
         d \in purge' => d \in purge \/ row[d].status # "absent",
         d \in accepted' <=> d \in accepted, d \in lost' <=> d \in lost,
         d \in retried' <=> d \in retried
  PROVE  DeliveryInv(d)'
  BY DEF DeliveryInv, Unused, Sourced, OneSender, Explained, Owned, Same, Held, Confirmed, Senders

\* So does one that is deleted, or closed while nobody can hold it.
LEMMA ClosedRow ==
  ASSUME NEW d \in Deliveries, DeliveryInv(d), row'[d].status \in {"dead", "cancelled", "deleted"},
         row'[d].status = "deleted" \/ row[d].status \in PENDING_STATUSES,
         \A s \in Senders : job'[s][d] = job[s][d],
         UNCHANGED <<accepted, lost, retried>>
  PROVE  DeliveryInv(d)'
  BY DEF DeliveryInv, Unused, Sourced, OneSender, Explained, Owned, Held, Confirmed, Senders,
         OpenStatuses, PENDING_STATUSES

\* The open requests stay consistent when some of them end and no row they hold
\* appears.
LEMMA RequestsKept ==
  ASSUME RequestInv,
         \A q \in Requests : req'[q] = req[q] \/ req'[q] = NoRequest,
         \A q \in Requests : \A d \in req'[q].dels :
            row'[d].status = "absent" <=> row[d].status = "absent"
  PROVE  RequestInv'
  BY DEF RequestInv, NoRequest

\* So they do when one of them begins with rows nobody has reserved, or that exist.
LEMMA RequestBegins ==
  ASSUME RequestInv, NEW r \in Requests, NEW new, row' = row,
         req' = [req EXCEPT ![r] = new], req \in [Requests -> Request],
         \/ /\ new.op = "enqueue"
            /\ \A d \in new.dels : /\ d \notin Reserved /\ row[d].status = "absent"
                                   /\ new.rows[d].status \in {"queued", "dead"}
         \/ new.op \in {"retry", "rotate"} /\ \A d \in new.dels : row[d].status # "absent"
  PROVE  RequestInv'
  <1>1. \A q \in Requests : req'[q] = IF q = r THEN new ELSE req[q]  OBVIOUS
  <1>2. \A q \in Requests : \A d \in req[q].dels : d \in Reserved  BY DEF Reserved
  <1>3. QED  BY <1>1, <1>2 DEF RequestInv

\* A step that touches neither senders nor outcomes, nor the fields of the rows the
\* invariant reads, keeps the invariant.
LEMMA SameRows ==
  ASSUME IInv, TypeOK', RequestInv', \A d \in Deliveries : Same(row'[d], row[d]),
         UNCHANGED <<worker, purge, job, accepted, lost, retried>>
  PROVE  IInv'
  <1>1. \A d \in Deliveries : DeliveryInv(d)'  BY Untouched DEF IInv
  <1>2. WorkerInv'  BY DEF IInv, WorkerInv, Idle
  <1>3. QED  BY <1>1, <1>2 DEF IInv

\* So does a step that closes or deletes rows.
LEMMA ClosedRows ==
  ASSUME IInv, TypeOK', NEW ds \in SUBSET Deliveries, NEW status \in {"dead", "cancelled", "deleted"},
         \A d \in ds : row[d].status # "absent",
         \A d \in ds : status = "deleted" \/ row[d].status \in PENDING_STATUSES,
         \A d \in Deliveries : IF d \in ds THEN row'[d].status = status ELSE row'[d] = row[d],
         UNCHANGED <<req, job, accepted, lost, retried>>,
         worker' = "down" <=> worker = "down", worker' = "busy" <=> worker = "busy",
         purge' = purge \/ purge' = {}
  PROVE  IInv'
  <1>1. \A d \in Deliveries : DeliveryInv(d)'
    <2>1. ASSUME NEW d \in Deliveries, d \in ds PROVE DeliveryInv(d)'
      BY <2>1, ClosedRow DEF IInv
    <2>2. ASSUME NEW d \in Deliveries, d \notin ds PROVE DeliveryInv(d)'
      BY <2>2, Untouched DEF IInv, Same
    <2>3. QED  BY <2>1, <2>2
  <1>2. RequestInv'
    <2>1. \A r \in Requests : req[r].dels \subseteq Deliveries  BY DEF IInv, TypeOK, Request
    <2>2. \A d \in Deliveries : row'[d].status = "absent" <=> row[d].status = "absent"
      OBVIOUS
    <2>3. QED  BY <2>1, <2>2, RequestsKept DEF IInv
  <1>3. WorkerInv'  BY DEF IInv, WorkerInv, Idle
  <1>4. QED  BY <1>1, <1>2, <1>3 DEF IInv

------------------------------------------------------------------------------
(* The steps of the requests and of the management routes                       *)

LEMMA RequestSteps ==
  ASSUME IInv, TypeOK', NEW r \in Requests, RequestStep(r)
  PROVE  IInv'
  <1> USE DEF db, process, observed
  <1>0. req \in [Requests -> Request] /\ row \in [Deliveries -> Row] /\ RequestInv
    BY DEF IInv, TypeOK
  <1>1. CASE EnqueueRead(r)
    <2>1. PICK ds \in SUBSET Deliveries \ {{}} :
             /\ \A d \in ds : Fresh(d)
             /\ req' = [req EXCEPT ![r] =
                 [NoRequest EXCEPT !.op = "enqueue", !.dels = ds,
                                   !.rows = [d \in Deliveries |->
                                      IF d \in ds THEN delivery_row(HookOf[d], MAX_ATTEMPTS)
                                                  ELSE Absent]]]
      BY <1>1 DEF EnqueueRead
    <2> DEFINE new == [NoRequest EXCEPT !.op = "enqueue", !.dels = ds,
                                        !.rows = [d \in Deliveries |->
                                           IF d \in ds THEN delivery_row(HookOf[d], MAX_ATTEMPTS)
                                                       ELSE Absent]]
    <2>2. new.op = "enqueue" /\ new.dels = ds  BY DEF NoRequest
    <2>3. \A d \in ds : new.rows[d] = delivery_row(HookOf[d], MAX_ATTEMPTS)  BY DEF NoRequest
    <2>4. \A d \in new.dels : /\ d \notin Reserved /\ row[d].status = "absent"
                              /\ new.rows[d].status \in {"queued", "dead"}
      BY <2>1, <2>2, <2>3, NewRowFields DEF Fresh
    <2>5. row' = row /\ req' = [req EXCEPT ![r] = new]  BY <1>1, <2>1 DEF EnqueueRead
    <2> HIDE DEF new
    <2>6. RequestInv'  BY <1>0, <2>2, <2>4, <2>5, RequestBegins
    <2>7. QED  BY <1>1, <2>6, SameRows DEF EnqueueRead, Same
  <1>2. CASE EnqueueCommit(r)
    <2>1. \A d \in req[r].dels : /\ d \in Deliveries /\ row[d].status = "absent"
                                 /\ row'[d].status \in {"queued", "dead"}
      BY <1>0, <1>2 DEF EnqueueCommit, RequestInv, Request
    <2>2. \A d \in Deliveries \ req[r].dels : row'[d] = row[d]  BY <1>2 DEF EnqueueCommit
    <2>3. RequestInv'
      <3>1. \A q \in Requests : req'[q] = IF q = r THEN NoRequest ELSE req[q]
        BY <1>0, <1>2 DEF EnqueueCommit
      <3>2. \A q \in Requests \ {r} : req[q].dels \cap req[r].dels = {}
        BY <1>0, <1>2 DEF EnqueueCommit, RequestInv
      <3>3. \A q \in Requests : req[q].dels \subseteq Deliveries  BY <1>0 DEF Request
      <3>4. \A q \in Requests : \A d \in req'[q].dels : row'[d] = row[d]
        BY <2>2, <3>1, <3>2, <3>3 DEF NoRequest
      <3>5. QED  BY <1>0, <3>1, <3>4, RequestsKept
    <2>4. ASSUME NEW d \in Deliveries PROVE DeliveryInv(d)'
      <3>1. CASE d \in req[r].dels
        BY <1>2, <2>1, <3>1 DEF EnqueueCommit, IInv, DeliveryInv, Unused, Sourced, OneSender,
           Explained, Owned, Held, Confirmed, Senders
      <3>2. CASE d \notin req[r].dels
        BY <1>2, <2>2, <3>2, Untouched DEF EnqueueCommit, IInv, Same
      <3>3. QED  BY <3>1, <3>2
    <2>5. QED  BY <1>2, <2>3, <2>4 DEF IInv, EnqueueCommit, WorkerInv, Idle
  <1>3. CASE Abort(r)
    <2>1. RequestInv'  BY <1>0, <1>3, RequestsKept DEF Abort
    <2>2. QED  BY <1>3, <2>1, SameRows DEF Abort, Same
  <1>4. ASSUME NEW d \in Deliveries, RetryRead(r, d) PROVE IInv'
    <2> DEFINE new == [NoRequest EXCEPT !.op = "retry", !.dels = {d}, !.secret = hook[HookOf[d]].secret,
                                        !.rows = [NoRequest.rows EXCEPT ![d] = row[d]]]
    <2>1. new.op = "retry" /\ new.dels = {d}  BY DEF NoRequest
    <2>2. row[d].status # "absent"  BY <1>4 DEF RetryRead, TERMINAL_STATUSES
    <2>3. row' = row /\ req' = [req EXCEPT ![r] = new]  BY <1>4 DEF RetryRead
    <2> HIDE DEF new
    <2>4. RequestInv'  BY <1>0, <2>1, <2>2, <2>3, RequestBegins
    <2>5. QED  BY <1>4, <2>4, SameRows DEF RetryRead, Same
  <1>5. ASSUME NEW d \in Deliveries, RetryCommit(r, d) PROVE IInv'
    <2>1. row[d].status # "absent"  BY <1>0, <1>5 DEF RetryCommit, RequestInv
    <2>2. row[d] \in Row /\ req[r].rows[d] \in Row  BY <1>0 DEF Request
    <2>3. /\ row'[d] = Retried(row[d], req[r].rows[d], req[r].secret)
          /\ \A e \in Deliveries \ {d} : row'[e] = row[e]
      BY <1>0, <1>5 DEF RetryCommit
    <2>4. IF req[r].rows[d].status = "failed" THEN Same(row'[d], row[d])
                                              ELSE row'[d].status = "queued"
      BY <2>2, <2>3, RetriedFields
    <2>5. RequestInv'
      <3>1. \A q \in Requests : req'[q] = req[q] \/ req'[q] = NoRequest
        BY <1>0, <1>5 DEF RetryCommit
      <3>2. \A q \in Requests : req'[q].dels \subseteq Deliveries
        BY <1>0, <3>1 DEF Request, NoRequest
      <3>3. \A e \in Deliveries : row'[e].status = "absent" <=> row[e].status = "absent"
        BY <2>1, <2>3, <2>4 DEF Same
      <3>4. QED  BY <1>0, <3>1, <3>2, <3>3, RequestsKept
    <2>6. CASE req[r].rows[d].status = "failed"
      <3>1. retried' = retried  BY <1>5, <2>6 DEF RetryCommit
      <3>2. \A e \in Deliveries : Same(row'[e], row[e])  BY <2>3, <2>4, <2>6 DEF Same
      <3>3. QED  BY <1>5, <2>5, <3>1, <3>2, SameRows DEF RetryCommit
    <2>7. CASE req[r].rows[d].status # "failed"
      <3>1. retried' = retried \cup {d}  BY <1>5, <2>7 DEF RetryCommit
      <3>2. ASSUME NEW e \in Deliveries PROVE DeliveryInv(e)'
        <4>1. CASE e = d
          BY <1>5, <2>1, <2>4, <2>7, <3>1, <4>1 DEF RetryCommit, IInv, DeliveryInv, Unused, Sourced,
             OneSender, Explained, Owned, Confirmed, Senders
        <4>2. CASE e # d
          BY <1>5, <2>3, <3>1, <4>2, Untouched DEF RetryCommit, IInv, Same
        <4>3. QED  BY <4>1, <4>2
      <3>3. QED  BY <1>5, <2>5, <3>2 DEF IInv, RetryCommit, WorkerInv, Idle
    <2>8. QED  BY <2>6, <2>7
  <1>6. ASSUME NEW h \in Hooks, RotateRead(r, h) PROVE IInv'
    <2> DEFINE new == [NoRequest EXCEPT !.op = "rotate", !.hooks = {h}, !.secret = secrets',
                                        !.dels = RowsOf(h) \cap RowsWith(PENDING_STATUSES)]
    <2>1. new.op = "rotate" /\ new.dels = RowsOf(h) \cap RowsWith(PENDING_STATUSES)
      BY DEF NoRequest
    <2>2. \A d \in new.dels : row[d].status # "absent"  BY <2>1 DEF RowsWith, PENDING_STATUSES
    <2>3. row' = row /\ req' = [req EXCEPT ![r] = new]  BY <1>6 DEF RotateRead
    <2> HIDE DEF new
    <2>4. RequestInv'  BY <1>0, <2>1, <2>2, <2>3, RequestBegins
    <2>5. QED  BY <1>6, <2>4, SameRows DEF RotateRead, Same
  <1>7. ASSUME NEW h \in Hooks, RotateCommit(r, h) PROVE IInv'
    <2>1. \A d \in Deliveries : Same(row'[d], row[d])
      <3>1. SUFFICES ASSUME NEW d \in Deliveries PROVE Same(row'[d], row[d])  OBVIOUS
      <3>2. row[d] \in Row  BY <1>0
      <3>3. row'[d] = [row[d] EXCEPT !.signature = req[r].secret] \/ row'[d] = row[d]
        BY <1>7 DEF RotateCommit
      <3>4. QED  BY <3>2, <3>3 DEF Same, Row
    <2>2. RequestInv'
      <3>1. \A q \in Requests : req'[q] = req[q] \/ req'[q] = NoRequest
        BY <1>0, <1>7 DEF RotateCommit
      <3>2. \A q \in Requests : req'[q].dels \subseteq Deliveries
        BY <1>0, <3>1 DEF Request, NoRequest
      <3>3. QED  BY <1>0, <2>1, <3>1, <3>2, RequestsKept DEF Same
    <2>3. QED  BY <1>7, <2>1, <2>2, SameRows DEF RotateCommit
  <1>8. QED  BY <1>1, <1>2, <1>3, <1>4, <1>5, <1>6, <1>7 DEF RequestStep

LEMMA ManagementSteps ==
  ASSUME IInv, TypeOK', ManagementStep
  PROVE  IInv'
  <1> USE DEF db, process, observed
  <1>0. TypeOK /\ RequestInv  BY DEF IInv
  <1>1. ASSUME UNCHANGED <<row, process, observed>> PROVE IInv'
    <2>1. RequestInv'  BY <1>0, <1>1 DEF RequestInv
    <2>2. QED  BY <1>1, <2>1, SameRows DEF Same
  <1>2. ASSUME NEW ds \in SUBSET Deliveries, NEW status \in {"dead", "cancelled", "deleted"},
               row' = WithStatus(ds, status), UNCHANGED <<process, observed>>,
               \A d \in ds : row[d].status # "absent",
               \A d \in ds : status = "deleted" \/ row[d].status \in PENDING_STATUSES
        PROVE  IInv'
    <2>1. \A d \in Deliveries : IF d \in ds THEN row'[d].status = status ELSE row'[d] = row[d]
      BY <1>0, <1>2, WithStatusFields
    <2>2. QED  BY <1>2, <2>1, ClosedRows
  <1>3. ASSUME NEW h \in Hooks,
               CreateHook(h) \/ Activate(h) \/ Deactivate(h) \/ SetUrl(h) \/ DeleteHook(h)
        PROVE  IInv'
    <2>1. CASE Deactivate(h)
      BY <1>2, <2>1 DEF Deactivate, RowsOf, RowsWith, PENDING_STATUSES
    <2>2. CASE DeleteHook(h)
      BY <1>2, <2>2 DEF DeleteHook, RowsOf, RowsWith
    <2>3. CASE CreateHook(h) \/ Activate(h) \/ SetUrl(h)
      BY <1>1, <2>3 DEF CreateHook, Activate, SetUrl
    <2>4. QED  BY <1>3, <2>1, <2>2, <2>3
  <1>4. CASE revoke_all  BY <1>2, <1>4 DEF revoke_all, RowsWith, PENDING_STATUSES
  <1>5. CASE DeleteOwner  BY <1>2, <1>5 DEF DeleteOwner, RowsWith
  <1>6. CASE \E state \in {"active", "inactive"} : SetOwnerActive(state)
    BY <1>1, <1>6 DEF SetOwnerActive
  <1>7. QED  BY <1>3, <1>4, <1>5, <1>6 DEF ManagementStep

------------------------------------------------------------------------------
(* The steps of the senders, of the worker and of time                       *)

\* What a step that concerns one delivery leaves alone.
LEMMA OneDelivery ==
  ASSUME IInv, TypeOK', NEW d \in Deliveries, DeliveryInv(d)', WorkerInv', RequestInv',
         \A e \in Deliveries \ {d} :
            /\ row'[e] = row[e]
            /\ \A s \in Senders : job'[s][e] = job[s][e]
            /\ e \in accepted' <=> e \in accepted
            /\ e \in lost' <=> e \in lost,
         purge' = purge, retried' = retried
  PROVE  IInv'
  <1>1. ASSUME NEW e \in Deliveries PROVE DeliveryInv(e)'
    <2>1. CASE e = d  BY <2>1
    <2>2. CASE e # d
      <3>1. DeliveryInv(e) /\ Same(row'[e], row[e])  BY <2>2 DEF IInv, Same
      <3>2. /\ \A s \in Senders : job'[s][e] = job[s][e]
            /\ e \in accepted' <=> e \in accepted
            /\ e \in lost' <=> e \in lost
        BY <2>2
      <3>3. QED  BY <3>1, <3>2, Untouched
    <2>3. QED  BY <2>1, <2>2
  <1>2. QED  BY <1>1 DEF IInv

LEMMA MovedJob ==
  ASSUME TypeOK, NEW s \in Senders, NEW d \in Deliveries, NEW state, JobTo(s, d, state)
  PROVE  /\ job'[s][d] = state
         /\ \A q \in Senders, e \in Deliveries : q # s \/ e # d => job'[q][e] = job[q][e]
  BY DEF TypeOK, JobTo

\* The senders' own steps.
LEMMA SenderSteps ==
  ASSUME IInv, TypeOK', NEW s \in Senders, NEW d \in Deliveries, SenderStep(s, d)
  PROVE  IInv'
  <1> USE DEF db, process, observed
  <1>0. TypeOK /\ RequestInv /\ WorkerInv /\ DeliveryInv(d)  BY DEF IInv
  <1>1. PICK state \in JobStates : JobTo(s, d, state)
    BY DEF SenderStep, Answer, Reload, Store, JobFails, Verdict, JobStates, Answers, Verdicts
  <1>2. /\ job'[s][d] = state
        /\ \A q \in Senders, e \in Deliveries : q # s \/ e # d => job'[q][e] = job[q][e]
    BY <1>0, <1>1, MovedJob
  <1>3. job[s][d] # "none"
    BY DEF SenderStep, Answer, Reload, Store, JobFails, Answers, Verdicts
  <1>4. WorkerInv'
    <2>1. worker' = worker  BY DEF SenderStep, Answer, Reload, Store, JobFails
    <2>2. QED  BY <1>0, <1>2, <1>3, <2>1 DEF WorkerInv, Idle, Senders
  <1>5. row[d].status # "absent"  BY <1>0, <1>3 DEF DeliveryInv, Unused, Held
  <1>6. /\ purge' = purge /\ retried' = retried /\ req' = req
        /\ \A e \in Deliveries \ {d} :
              /\ row'[e] = row[e]
              /\ e \in accepted' <=> e \in accepted
              /\ e \in lost' <=> e \in lost
    <2>1. CASE Answer(s, d)  BY <1>0, <2>1 DEF Answer, TypeOK
    <2>2. CASE Reload(s, d)  BY <1>0, <2>2 DEF Reload, TypeOK
    <2>3. CASE Store(s, d)  BY <1>0, <2>3 DEF Store, TypeOK
    <2>4. CASE JobFails(s, d)  BY <1>0, <2>4 DEF JobFails, TypeOK
    <2>5. QED  BY <2>1, <2>2, <2>3, <2>4 DEF SenderStep
  <1>7. row'[d].status # "absent"
    <2>1. CASE Store(s, d)
      BY <1>0, <1>5, <2>1, SavedFields DEF Store, TypeOK, Verdicts
    <2>2. CASE ~Store(s, d)
      BY <1>5, <2>2 DEF SenderStep, Answer, Reload, JobFails
    <2>3. QED  BY <2>1, <2>2
  <1>8. RequestInv'
    <2>1. \A q \in Requests : req[q].dels \subseteq Deliveries  BY <1>0 DEF TypeOK, Request
    <2>2. \A e \in Deliveries : row'[e].status = "absent" <=> row[e].status = "absent"
      BY <1>5, <1>6, <1>7
    <2>3. QED  BY <1>0, <1>6, <2>1, <2>2, RequestsKept
  <1>9. DeliveryInv(d)'
    <2> USE DEF DeliveryInv, Unused, Sourced, OneSender, Explained, Owned, Confirmed, Senders
    <2>1. CASE Answer(s, d)
      BY <1>0, <1>2, <1>5, <2>1 DEF Answer, Answers, JobTo, TypeOK
    <2>2. CASE Reload(s, d)
      BY <1>0, <1>2, <1>5, <2>2 DEF Reload, Answers, JobTo, TypeOK, Verdict, OpenStatuses, PENDING_STATUSES
    <2>3. CASE Store(s, d)
      <3>1. row'[d].status = IF row[d].status = "deleted" THEN "deleted"
                             ELSE CASE job[s][d] = "save_succeeded" -> "succeeded"
                                    [] job[s][d] = "save_dead" -> "dead"
                                    [] job[s][d] = "save_failed" -> "failed"
        <4>1. row[d] \in Row /\ job[s][d] \in Verdicts  BY <1>0, <2>3 DEF Store, TypeOK
        <4>2. row'[d] = IF row[d].status = "deleted" THEN row[d] ELSE Saved(row[d], job[s][d])
          BY <1>0, <2>3 DEF Store, TypeOK
        <4>3. QED  BY <4>1, <4>2, SavedFields
      <3>2. state = "none"  BY <1>2, <2>3, <1>0 DEF Store, JobTo, TypeOK
      <3>3. UNCHANGED <<accepted, lost, retried, purge>> /\ job[s][d] \in Verdicts
        BY <2>3 DEF Store
      <3>4. QED
        BY <1>0, <1>2, <1>5, <3>1, <3>2, <3>3 DEF Verdicts, OpenStatuses, PENDING_STATUSES
    <2>4. CASE JobFails(s, d)
      <3>1. state = "none"  BY <1>2, <2>4, <1>0 DEF JobFails, JobTo, TypeOK
      <3>2. QED  BY <1>0, <1>2, <1>5, <2>4, <3>1 DEF JobFails
    <2>5. QED  BY <2>1, <2>2, <2>3, <2>4 DEF SenderStep
  <1>10. QED  BY <1>2, <1>4, <1>6, <1>8, <1>9, OneDelivery

\* The steps of a test delivery, of a claimed row and of time.
LEMMA RowSteps ==
  ASSUME IInv, TypeOK', NEW d \in Deliveries,
         TestStart(d) \/ Start(d) \/ BackoffEnds(d) \/ ClaimTimesOut(d)
  PROVE  IInv'
  <1> USE DEF db, process, observed
  <1>0. /\ TypeOK /\ RequestInv /\ WorkerInv /\ DeliveryInv(d) /\ row[d] \in Row
        /\ \A q \in Requests : req[q].dels \subseteq Deliveries
    BY DEF IInv, TypeOK, Request
  <1>1. CASE TestStart(d)
    <2> DEFINE new == delivery_row(HookOf[d], 1)
    <2>1. /\ new \in Row /\ new.status \in {"queued", "dead"}
          /\ new.max_attempts = 1 /\ new.last_attempt_at = "recent"
      BY <1>0, DeliveryRowType, NewRowFields, HookOfAssumption
    <2>2. /\ row[d].status = "absent" /\ \A q \in Requests : d \notin req[q].dels
          /\ Idle("test") /\ worker # "down"
          /\ UNCHANGED <<worker, purge, req, accepted, lost, retried>>
      BY <1>1 DEF TestStart, Fresh, Reserved, OwnerRequest, Up
    <2>3. \/ row' = [row EXCEPT ![d] = [new EXCEPT !.status = "in_progress", !.attempts = 1]]
             /\ JobTo("test", d, "sending")
          \/ row' = [row EXCEPT ![d] = new] /\ new.status = "dead" /\ job' = job
      BY <1>1, <2>1 DEF TestStart
    <2> HIDE DEF new
    <2>4. \A e \in Deliveries \ {d} : row'[e] = row[e] /\ \A s \in Senders : job'[s][e] = job[s][e]
      BY <1>0, <2>3, MovedJob DEF TypeOK, Senders
    <2>5. \/ /\ row'[d].status = "in_progress" /\ row'[d].last_attempt_at = "recent"
             /\ row'[d].attempts = 1 /\ row'[d].max_attempts = 1
             /\ job'["test"][d] = "sending" /\ job'["worker"][d] = job["worker"][d]
          \/ row'[d].status = "dead" /\ job' = job
      <3>1. CASE row' = [row EXCEPT ![d] = new] /\ new.status = "dead" /\ job' = job
        BY <1>0, <3>1 DEF TypeOK
      <3>2. CASE row' = [row EXCEPT ![d] = [new EXCEPT !.status = "in_progress", !.attempts = 1]]
                 /\ JobTo("test", d, "sending")
        <4>1. row'[d] = [new EXCEPT !.status = "in_progress", !.attempts = 1]
          BY <1>0, <3>2 DEF TypeOK
        <4>2. job'["test"][d] = "sending" /\ job'["worker"][d] = job["worker"][d]
          BY <1>0, <3>2, MovedJob DEF Senders
        <4>3. QED  BY <2>1, <4>1, <4>2, TestRowFields
      <3>3. QED  BY <2>3, <3>1, <3>2
    <2>6. DeliveryInv(d)'
      BY <1>0, <2>2, <2>5 DEF DeliveryInv, Unused, Sourced, OneSender, Explained, Owned, Held,
         Confirmed, Senders
    <2>7. WorkerInv'
      BY <1>0, <2>2, <2>4, <2>5 DEF WorkerInv, Idle, Senders
    <2>8. RequestInv'  BY <1>0, <2>2, <2>4, RequestsKept
    <2>9. QED  BY <2>2, <2>4, <2>6, <2>7, <2>8, OneDelivery
  <1>2. CASE Start(d)
    <2>1. /\ job["worker"][d] = "claimed" /\ UNCHANGED <<worker, purge, req, accepted, lost, retried>>
          /\ \/ JobTo("worker", d, "sending") /\ row' = row
             \/ /\ JobTo("worker", d, "none")
                /\ row' = IF row[d].status = "in_progress" THEN [row EXCEPT ![d].status = "dead"]
                                                           ELSE row
      BY <1>2 DEF Start
    <2>2. PICK state \in {"sending", "none"} : JobTo("worker", d, state)  BY <2>1
    <2>3. /\ job'["worker"][d] = state
          /\ \A q \in Senders, e \in Deliveries : q # "worker" \/ e # d => job'[q][e] = job[q][e]
      BY <1>0, <2>2, MovedJob DEF Senders
    <2>4. \/ state = "sending" /\ row' = row
          \/ /\ state = "none"
             /\ row' = IF row[d].status = "in_progress" THEN [row EXCEPT ![d].status = "dead"] ELSE row
      <3>1. \A t : JobTo("worker", d, t) => t = state
        BY <1>0, <2>3, MovedJob DEF Senders
      <3>2. QED  BY <2>1, <3>1
    <2>5. \A e \in Deliveries \ {d} : row'[e] = row[e]  BY <1>0, <2>4 DEF TypeOK
    <2>6. \/ state = "sending" /\ row'[d] = row[d]
          \/ state = "none" /\ IF row[d].status = "in_progress" THEN row'[d].status = "dead"
                                                                ELSE row'[d] = row[d]
      BY <1>0, <2>4 DEF TypeOK, Row
    <2>7. DeliveryInv(d)'
      BY <1>0, <2>1, <2>3, <2>6 DEF DeliveryInv, Unused, Sourced, OneSender, Explained, Owned, Held,
         Confirmed, Senders, OpenStatuses, PENDING_STATUSES
    <2>8. WorkerInv'  BY <1>0, <2>1, <2>3 DEF WorkerInv, Idle, Senders
    <2>9. \A e \in Deliveries : row'[e].status = "absent" <=> row[e].status = "absent"
      BY <2>5, <2>6
    <2>10. RequestInv'  BY <1>0, <2>1, <2>9, RequestsKept
    <2>11. QED  BY <2>1, <2>3, <2>5, <2>7, <2>8, <2>10, OneDelivery
  <1>3. CASE BackoffEnds(d)
    <2>1. \A e \in Deliveries : Same(row'[e], row[e])
      <3>1. \A e \in Deliveries \ {d} : row'[e] = row[e]  BY <1>0, <1>3 DEF BackoffEnds, TypeOK
      <3>2. row'[d] = [row[d] EXCEPT !.next_attempt_at = "now"]
        BY <1>0, <1>3 DEF BackoffEnds, TypeOK
      <3>3. QED  BY <1>0, <3>1, <3>2 DEF Same, Row
    <2>2. RequestInv'  BY <1>0, <1>3, <2>1, RequestsKept DEF BackoffEnds, Same
    <2>3. QED  BY <1>3, <2>1, <2>2, SameRows DEF BackoffEnds
  <1>4. CASE ClaimTimesOut(d)
    <2>1. \A e \in Deliveries \ {d} : row'[e] = row[e]  BY <1>0, <1>4 DEF ClaimTimesOut, TypeOK
    <2>2. row'[d].status = row[d].status
      <3>1. row'[d] = [row[d] EXCEPT !.last_attempt_at = "stale"]
        BY <1>0, <1>4 DEF ClaimTimesOut, TypeOK
      <3>2. QED  BY <1>0, <3>1 DEF Row
    <2>3. DeliveryInv(d)'
      BY <1>0, <1>4, <2>2 DEF ClaimTimesOut, DeliveryInv, Unused, Sourced, OneSender, Explained, Owned,
         Held, Confirmed, Senders
    <2>4. RequestInv'  BY <1>0, <1>4, <2>1, <2>2, RequestsKept DEF ClaimTimesOut
    <2>5. WorkerInv'  BY <1>0, <1>4 DEF ClaimTimesOut, WorkerInv, Idle
    <2>6. QED  BY <1>4, <2>1, <2>3, <2>4, <2>5, OneDelivery DEF ClaimTimesOut
  <1>5. QED  BY <1>1, <1>2, <1>3, <1>4

\* The steps of the worker loop, of a crash and of a restart.
LEMMA WorkerSteps ==
  ASSUME IInv, TypeOK', WorkerStep \/ Crash \/ Restart
  PROVE  IInv'
  <1> USE DEF db, process, observed
  <1>0. /\ TypeOK /\ RequestInv /\ WorkerInv
        /\ \A d \in Deliveries : DeliveryInv(d) /\ row[d] \in Row
        /\ \A q \in Requests : req[q].dels \subseteq Deliveries
    BY DEF IInv, TypeOK, Request
  <1>1. ASSUME row' = row, UNCHANGED <<job, req, accepted, lost, retried>>, WorkerInv',
               \A d \in purge' : d \in purge \/ row[d].status # "absent"
        PROVE  IInv'
    <2>1. \A d \in Deliveries : Same(row'[d], row[d])  BY <1>1 DEF Same
    <2>2. \A d \in Deliveries : DeliveryInv(d)'
      <3>1. SUFFICES ASSUME NEW d \in Deliveries PROVE DeliveryInv(d)'  OBVIOUS
      <3>2. d \in purge' => d \in purge \/ row[d].status # "absent"  BY <1>1
      <3>3. QED  BY <1>0, <1>1, <2>1, <3>2, Untouched
    <2>3. RequestInv'  BY <1>0, <1>1 DEF RequestInv
    <2>4. QED  BY <1>1, <2>2, <2>3 DEF IInv
  <1>2. CASE HousekeepingSelect
    <2>1. /\ worker = "top" /\ worker' = "purging" /\ purge' \subseteq RowsWith(TERMINAL_STATUSES)
          /\ UNCHANGED <<row, job, req, accepted, lost, retried>>
      BY <1>2 DEF HousekeepingSelect, WorkerTo
    <2>2. \A d \in purge' : row[d].status # "absent"  BY <2>1 DEF RowsWith, TERMINAL_STATUSES
    <2>3. WorkerInv'  BY <1>0, <2>1 DEF WorkerInv, Idle
    <2>4. QED  BY <1>1, <2>1, <2>2, <2>3
  <1>3. CASE HousekeepingDelete
    <2>1. /\ worker = "purging" /\ worker' = "reset" /\ purge' = {} /\ row' = WithStatus(purge, "deleted")
          /\ UNCHANGED <<job, req, accepted, lost, retried>>
      BY <1>3 DEF HousekeepingDelete, WorkerTo
    <2>2. purge \in SUBSET Deliveries /\ \A d \in purge : row[d].status # "absent"
      BY <1>0 DEF TypeOK, DeliveryInv, Unused
    <2>3. \A d \in Deliveries : IF d \in purge THEN row'[d].status = "deleted" ELSE row'[d] = row[d]
      BY <1>0, <2>1, <2>2, WithStatusFields
    <2>4. QED  BY <2>1, <2>2, <2>3, ClosedRows
  <1>4. CASE RoundEnds
    <2>1. WorkerInv' /\ \A d \in purge' : d \in purge
      BY <1>0, <1>4 DEF RoundEnds, WorkerTo, WorkerInv, Idle
    <2>2. QED  BY <1>1, <1>4, <2>1 DEF RoundEnds
  <1>5. CASE LoopError
    <2>1. WorkerInv' /\ \A d \in purge' : d \in purge
      BY <1>0, <1>5 DEF LoopError, WorkerInv, Idle
    <2>2. QED  BY <1>1, <1>5, <2>1 DEF LoopError
  <1>6. CASE reset_in_progress_on_startup \/ reset_stale
    <2>1. PICK ds \in SUBSET RowsWith({"in_progress"}) :
             /\ row' = ResetRows(ds)
             /\ \/ worker \in {"top", "reset"} /\ worker' = "claim"
                   /\ \A d \in ds : row[d].last_attempt_at = "stale"
                \/ worker = "starting" /\ worker' = "top"
      BY <1>6 DEF reset_in_progress_on_startup, reset_stale, WorkerTo
    <2>2. UNCHANGED <<purge, job, req, accepted, lost, retried>>
      BY <1>6 DEF reset_in_progress_on_startup, reset_stale
    <2>3. ds \in SUBSET Deliveries /\ \A d \in ds : row[d].status = "in_progress"
      BY <2>1 DEF RowsWith
    <2>4. \A d \in Deliveries :
             IF d \notin ds THEN row'[d] = row[d]
             ELSE row'[d].status = IF row[d].attempts >= row[d].max_attempts THEN "dead" ELSE "failed"
      BY <1>0, <2>1, <2>3, ResetRowsFields
    <2>5. Idle("worker") /\ worker # "down" /\ worker # "busy" /\ worker' # "down" /\ worker' # "busy"
      BY <1>0, <2>1 DEF WorkerInv
    <2>6. ASSUME NEW d \in Deliveries PROVE DeliveryInv(d)'
      <3>1. CASE d \notin ds
        <4>1. Same(row'[d], row[d])  BY <2>4, <3>1 DEF Same
        <4>2. QED  BY <1>0, <2>2, <4>1, Untouched
      <3>2. CASE d \in ds
        <4>1. /\ row[d].status = "in_progress" /\ job["worker"][d] = "none"
              /\ \/ row'[d].status = "dead" /\ row[d].attempts >= row[d].max_attempts
                 \/ row'[d].status = "failed" /\ ~(row[d].attempts >= row[d].max_attempts)
          BY <2>3, <2>4, <2>5, <3>2 DEF Idle
        <4>2. QED
          BY <1>0, <2>2, <4>1 DEF DeliveryInv, Unused, Sourced, OneSender, Explained, Owned, Held,
             Confirmed, Senders, OpenStatuses
      <3>3. QED  BY <3>1, <3>2
    <2>7. \A d \in Deliveries : row'[d].status = "absent" <=> row[d].status = "absent"
      BY <2>3, <2>4
    <2>8. RequestInv'  BY <1>0, <2>2, <2>7, RequestsKept
    <2>9. WorkerInv'  BY <2>2, <2>5 DEF WorkerInv, Idle
    <2>10. QED  BY <2>6, <2>8, <2>9 DEF IInv
  <1>7. CASE claim_due
    <2>1. PICK ds \in SUBSET Due :
             /\ worker' = IF ds = {} THEN "top" ELSE "busy"
             /\ row' = [d \in Deliveries |-> IF d \in ds THEN Claimed(row[d]) ELSE row[d]]
             /\ job' = [job EXCEPT !["worker"] =
                          [d \in Deliveries |-> IF d \in ds THEN "claimed" ELSE job["worker"][d]]]
      BY <1>7 DEF claim_due
    <2>2. worker = "claim" /\ UNCHANGED <<purge, req, accepted, lost, retried>>
      BY <1>7 DEF claim_due
    <2>3. Idle("worker")  BY <1>0, <2>2 DEF WorkerInv
    <2>4. ds \in SUBSET Deliveries /\ \A d \in ds : row[d].status \in PENDING_STATUSES
      BY <2>1 DEF Due, RowsWith
    <2>5. ASSUME NEW d \in Deliveries
          PROVE  /\ job'["test"][d] = job["test"][d]
                 /\ job'["worker"][d] = IF d \in ds THEN "claimed" ELSE "none"
                 /\ row'[d] = IF d \in ds THEN Claimed(row[d]) ELSE row[d]
      BY <1>0, <2>1, <2>3 DEF TypeOK, Senders, Idle
    <2>6. ASSUME NEW d \in Deliveries, d \in ds PROVE DeliveryInv(d)'
      <3>1. /\ row'[d].status = "in_progress" /\ row'[d].last_attempt_at = "recent"
            /\ job'["worker"][d] = "claimed" /\ job["worker"][d] = "none"
            /\ job'["test"][d] = job["test"][d] /\ row[d].status \in PENDING_STATUSES
        BY <1>0, <2>3, <2>4, <2>5, <2>6, ClaimedFields DEF Idle
      <3>2. QED
        BY <1>0, <2>2, <3>1 DEF DeliveryInv, Unused, Sourced, OneSender, Explained, Owned, Held,
           Confirmed, Senders, OpenStatuses, PENDING_STATUSES
    <2>7. ASSUME NEW d \in Deliveries, d \notin ds PROVE DeliveryInv(d)'
      <3>1. Same(row'[d], row[d])  BY <2>5, <2>7 DEF Same
      <3>2. \A s \in Senders : job'[s][d] = job[s][d]  BY <2>3, <2>5, <2>7 DEF Senders, Idle
      <3>3. QED  BY <1>0, <2>2, <3>1, <3>2, Untouched
    <2>8. RequestInv'
      <3>1. \A d \in Deliveries : row'[d].status = "absent" <=> row[d].status = "absent"
        BY <1>0, <2>4, <2>5, ClaimedFields DEF PENDING_STATUSES
      <3>2. QED  BY <1>0, <2>2, <3>1, RequestsKept
    <2>9. WorkerInv'  BY <2>1, <2>5 DEF WorkerInv, Idle
    <2>10. QED  BY <2>6, <2>7, <2>8, <2>9 DEF IInv
  <1>8. CASE Crash
    <2>1. /\ row' = row /\ purge' = {} /\ UNCHANGED <<accepted, retried>>
          /\ \A s \in Senders, d \in Deliveries : job'[s][d] = "none"
          /\ \A q \in Requests : req'[q] = NoRequest
          /\ \A d \in Deliveries : d \in lost' <=> d \in lost \/ \E s \in Senders : Confirmed(s, d)
      BY <1>8 DEF Crash, NoJobs
    <2>2. ASSUME NEW d \in Deliveries PROVE DeliveryInv(d)'
      <3>1. d \in lost' <=> d \in lost \/ \E s \in Senders : Confirmed(s, d)  BY <2>1
      <3>2. DeliveryInv(d)  BY <1>0
      <3>3. \A s \in Senders : job'[s][d] = "none"  BY <2>1
      <3>4. QED
        BY <2>1, <3>1, <3>2, <3>3 DEF DeliveryInv, Unused, Sourced, OneSender, Explained, Owned, Held,
           Confirmed, Senders
    <2>3. RequestInv'  BY <1>0, <2>1, RequestsKept
    <2>4. WorkerInv'  BY <2>1 DEF WorkerInv, Idle, Senders
    <2>5. QED  BY <2>2, <2>3, <2>4 DEF IInv
  <1>9. CASE Restart
    <2>1. WorkerInv' /\ \A d \in purge' : d \in purge
      BY <1>0, <1>9 DEF Restart, WorkerTo, WorkerInv, Idle
    <2>2. QED  BY <1>1, <1>9, <2>1 DEF Restart
  <1>10. QED  BY <1>2, <1>3, <1>4, <1>5, <1>6, <1>7, <1>8, <1>9 DEF WorkerStep

LEMMA InductiveInvariant == Spec => []IInv
  <1>1. ASSUME Init, TypeOK PROVE IInv
    <2>1. RequestInv  BY <1>1 DEF Init, RequestInv, NoRequest
    <2>2. WorkerInv  BY <1>1 DEF Init, WorkerInv, Idle, NoJobs, Senders
    <2>3. \A d \in Deliveries : DeliveryInv(d)
      BY <1>1 DEF Init, DeliveryInv, Unused, Sourced, OneSender, Explained, Owned, Held, Confirmed,
         Senders, NoJobs, Absent, OpenStatuses, PENDING_STATUSES
    <2>4. QED  BY <1>1, <2>1, <2>2, <2>3 DEF IInv
  <1>2. ASSUME IInv, TypeOK', [Next]_vars PROVE IInv'
    <2>1. CASE UNCHANGED vars
      <3>1. UNCHANGED <<row, worker, purge, job, req, accepted, lost, retried>>
        BY <2>1 DEF vars, db, process, observed
      <3>2. RequestInv'  BY <1>2, <3>1 DEF IInv, RequestInv
      <3>3. QED  BY <1>2, <3>1, <3>2, SameRows DEF Same
    <2>2. CASE Next
      BY <1>2, <2>2, RequestSteps, ManagementSteps, RowSteps, SenderSteps, WorkerSteps DEF Next
    <2>3. QED  BY <1>2, <2>1, <2>2
  <1>3. QED  BY <1>1, <1>2, TypeCorrect, PTL DEF Spec

\* Whatever crashed, was retried or changed hands: a delivery stored as succeeded was
\* processed by its receiver (apply_result after the reload in _process and in
\* test_my_webhook).
THEOREM SuccessIsGenuine == Spec => []SuccessWasAccepted
  <1>1. IInv => SuccessWasAccepted
    BY DEF IInv, DeliveryInv, Sourced, SuccessWasAccepted, RowsWith
  <1>2. QED  BY <1>1, InductiveInvariant, PTL

\* The worker and a test request never post one row at the same time, unless the
\* owner reopened it.
THEOREM SendersExclude == Spec => []NoConcurrentSend
  <1>1. IInv => NoConcurrentSend
    BY DEF IInv, DeliveryInv, OneSender, NoConcurrentSend
  <1>2. QED  BY <1>1, InductiveInvariant, PTL

\* No interleaving of claims, resets, tests and management repeats a delivery the
\* receiver has confirmed, as long as the confirmation is not lost with a crash or a
\* failed database step and the owner does not ask for it.
THEOREM ResendsAreExplained == Spec => []NoUnexplainedResend
  <1>1. ASSUME IInv PROVE NoUnexplainedResend
    <2>1. accepted \subseteq Deliveries  BY <1>1 DEF IInv, TypeOK
    <2>2. QED  BY <1>1, <2>1 DEF IInv, DeliveryInv, Explained, NoUnexplainedResend
  <1>2. QED  BY <1>1, InductiveInvariant, PTL

------------------------------------------------------------------------------
(* The budget of attempts                                                    *)

\* Two retries of one finished row that overlap may take its budget below what it
\* has used: the later commit writes the budget its own read was good for.  What is
\* said of retried deliveries holds when the retries come one after the other.
OneRequest == \A r, q \in Requests : r = q

Counted(d) == d \notin retried \/ OneRequest

\* A delivery with one attempt left at most: the owner's retry grants one, and so
\* does a test.
Spent(d) == d \in retried \/ job["test"][d] # "none"

\* A claim needs an attempt that is left; a verdict that leaves the row open is only
\* reached where one is.
WithinBudget(d) ==
    /\ row[d].status = "absent" => d \notin retried
    /\ Counted(d) =>
         /\ row[d].attempts <= row[d].max_attempts
         /\ row[d].status \in PENDING_STATUSES => row[d].attempts < row[d].max_attempts
         /\ Spent(d) => /\ row[d].max_attempts <= row[d].attempts + 1
                        /\ row[d].status = "in_progress" => row[d].max_attempts <= row[d].attempts
         /\ \A s \in Senders : job[s][d] = "save_failed" =>
               ~Spent(d) /\ row[d].attempts < row[d].max_attempts

\* A new row comes with a fresh budget, and a finished row waits as it was read for
\* the only request that may reopen it.
LoadedInv ==
    \A r \in Requests : \A d \in req[r].dels :
       /\ req[r].op = "enqueue" => /\ req[r].rows[d].attempts = 0
                                   /\ req[r].rows[d].max_attempts = MAX_ATTEMPTS
       /\ OneRequest /\ req[r].op = "retry" /\ req[r].rows[d].status # "failed" =>
             \/ row[d].status = "deleted"
             \/ /\ row[d].status \in TERMINAL_STATUSES
                /\ row[d].attempts = req[r].rows[d].attempts
                /\ row[d].max_attempts = req[r].rows[d].max_attempts

Budget == LoadedInv /\ \A d \in Deliveries : WithinBudget(d)

\* A step that leaves the counters of a row and does not open it.
Gentle(d) ==
    /\ row'[d].attempts = row[d].attempts /\ row'[d].max_attempts = row[d].max_attempts
    /\ \/ row'[d].status = row[d].status
       \/ row[d].status # "absent" /\ row'[d].status = "deleted"
       \/ row[d].status \notin {"absent", "deleted"} /\ row'[d].status \in TERMINAL_STATUSES

\* And that brings no sender into play.
Calm(d) ==
    /\ job'["test"][d] # "none" => job["test"][d] # "none"
    /\ \A s \in Senders : job'[s][d] = "save_failed" => job[s][d] = "save_failed"

LEMMA GentleKeeps ==
  ASSUME NEW d \in Deliveries, WithinBudget(d), Gentle(d), Calm(d), d \in retried' <=> d \in retried
  PROVE  WithinBudget(d)'
  BY DEF WithinBudget, Gentle, Calm, Counted, Spent, PENDING_STATUSES, TERMINAL_STATUSES, Senders

LEMMA BudgetStepwise ==
  ASSUME Budget, \A d \in Deliveries : WithinBudget(d)',
         \A q \in Requests : req[q].dels \subseteq Deliveries,
         \A d \in Deliveries :
            OneRequest => Gentle(d) \/ row[d].status \notin TERMINAL_STATUSES \cup {"deleted"},
         \A q \in Requests : req'[q] = req[q] \/ req'[q] = NoRequest
  PROVE  Budget'
  <1>1. LoadedInv'
    <2>1. SUFFICES ASSUME NEW q \in Requests, req'[q] = req[q], NEW d \in req[q].dels
                   PROVE  /\ req[q].op = "enqueue" => /\ req[q].rows[d].attempts = 0
                                                      /\ req[q].rows[d].max_attempts = MAX_ATTEMPTS
                          /\ OneRequest /\ req[q].op = "retry" /\ req[q].rows[d].status # "failed" =>
                                \/ row'[d].status = "deleted"
                                \/ /\ row'[d].status \in TERMINAL_STATUSES
                                   /\ row'[d].attempts = req[q].rows[d].attempts
                                   /\ row'[d].max_attempts = req[q].rows[d].max_attempts
      BY DEF LoadedInv, OneRequest, NoRequest
    <2>2. OneRequest => Gentle(d) \/ row[d].status \notin TERMINAL_STATUSES \cup {"deleted"}
      BY <2>1
    <2>3. /\ req[q].op = "enqueue" => /\ req[q].rows[d].attempts = 0
                                      /\ req[q].rows[d].max_attempts = MAX_ATTEMPTS
          /\ OneRequest /\ req[q].op = "retry" /\ req[q].rows[d].status # "failed" =>
                \/ row[d].status = "deleted"
                \/ /\ row[d].status \in TERMINAL_STATUSES
                   /\ row[d].attempts = req[q].rows[d].attempts
                   /\ row[d].max_attempts = req[q].rows[d].max_attempts
      BY <2>1 DEF Budget, LoadedInv
    <2>4. CASE ~(OneRequest /\ req[q].op = "retry" /\ req[q].rows[d].status # "failed")
      BY <2>3, <2>4
    <2>5. CASE OneRequest /\ req[q].op = "retry" /\ req[q].rows[d].status # "failed"
      <3>0. row[d].status \in TERMINAL_STATUSES \cup {"deleted"}  BY <2>3, <2>5
      <3>1. Gentle(d)  BY <2>2, <3>0, <2>5
      <3>2. QED  BY <2>3, <2>5, <3>1 DEF Gentle, TERMINAL_STATUSES
    <2>6. QED  BY <2>4, <2>5
  <1>2. QED  BY <1>1 DEF Budget

\* A step gentle to every row.
LEMMA GentleStep ==
  ASSUME Budget, \A q \in Requests : req[q].dels \subseteq Deliveries,
         \A d \in Deliveries : Gentle(d) /\ Calm(d), retried' = retried,
         \A q \in Requests : req'[q] = req[q] \/ req'[q] = NoRequest
  PROVE  Budget'
  <1>1. \A d \in Deliveries : WithinBudget(d)'
    <2>1. SUFFICES ASSUME NEW d \in Deliveries PROVE WithinBudget(d)'  OBVIOUS
    <2>2. WithinBudget(d) /\ Gentle(d) /\ Calm(d)  BY DEF Budget
    <2>3. QED  BY <2>2, GentleKeeps
  <1>2. \A d \in Deliveries :
           OneRequest => Gentle(d) \/ row[d].status \notin TERMINAL_STATUSES \cup {"deleted"}
    OBVIOUS
  <1>3. QED  BY <1>1, <1>2, BudgetStepwise

LEMMA SameIsGentle ==
  ASSUME NEW d, Same(row'[d], row[d]) PROVE Gentle(d)
  BY DEF Same, Gentle

LEMMA StillIsCalm ==
  ASSUME NEW d, \A s \in Senders : job'[s][d] = job[s][d] PROVE Calm(d)
  BY DEF Calm, Senders

\* The steps of the requests.
LEMMA BudgetRequests ==
  ASSUME IInv, TypeOK', Budget, NEW r \in Requests, RequestStep(r)
  PROVE  Budget'
  <1> USE DEF db, process, observed
  <1>0. /\ req \in [Requests -> Request] /\ row \in [Deliveries -> Row] /\ RequestInv /\ TypeOK
        /\ \A q \in Requests : req[q].dels \subseteq Deliveries
    BY DEF IInv, TypeOK, Request
  <1>1. ASSUME UNCHANGED <<row, job, retried>>,
               NEW new, req' = [req EXCEPT ![r] = new],
               \A d \in new.dels :
                  /\ new.op = "enqueue" => /\ new.rows[d].attempts = 0
                                           /\ new.rows[d].max_attempts = MAX_ATTEMPTS
                  /\ new.op = "retry" /\ new.rows[d].status # "failed" =>
                        row[d].status \in TERMINAL_STATUSES /\ new.rows[d] = row[d]
        PROVE  Budget'
    <2>1. \A q \in Requests : req'[q] = IF q = r THEN new ELSE req[q]  BY <1>0, <1>1
    <2>2. LoadedInv'  BY <1>1, <2>1 DEF Budget, LoadedInv, OneRequest
    <2>3. \A d \in Deliveries : WithinBudget(d)'
      BY <1>1 DEF Budget, WithinBudget, Counted, Spent
    <2>4. QED  BY <2>2, <2>3 DEF Budget
  <1>2. CASE EnqueueRead(r)
    <2>1. PICK ds \in SUBSET Deliveries \ {{}} :
              req' = [req EXCEPT ![r] =
                 [NoRequest EXCEPT !.op = "enqueue", !.dels = ds,
                                   !.rows = [d \in Deliveries |->
                                      IF d \in ds THEN delivery_row(HookOf[d], MAX_ATTEMPTS)
                                                  ELSE Absent]]]
      BY <1>2 DEF EnqueueRead
    <2> DEFINE new == [NoRequest EXCEPT !.op = "enqueue", !.dels = ds,
                                        !.rows = [d \in Deliveries |->
                                           IF d \in ds THEN delivery_row(HookOf[d], MAX_ATTEMPTS)
                                                       ELSE Absent]]
    <2>2. new.op = "enqueue" /\ new.dels = ds  BY DEF NoRequest
    <2>3. \A d \in ds : new.rows[d].attempts = 0 /\ new.rows[d].max_attempts = MAX_ATTEMPTS
      BY DEF NoRequest, delivery_row, Absent
    <2>4. req' = [req EXCEPT ![r] = new] /\ UNCHANGED <<row, job, retried>>
      BY <1>2, <2>1 DEF EnqueueRead
    <2> HIDE DEF new
    <2>5. QED  BY <1>1, <2>2, <2>3, <2>4
  <1>3. CASE EnqueueCommit(r)
    <2>1. \A q \in Requests : req'[q] = IF q = r THEN NoRequest ELSE req[q]
      BY <1>0, <1>3 DEF EnqueueCommit
    <2>2. ASSUME NEW d \in Deliveries
          PROVE  WithinBudget(d)' /\ (Gentle(d) \/ row[d].status \notin TERMINAL_STATUSES \cup {"deleted"})
      <3>0. WithinBudget(d) /\ UNCHANGED <<job, retried>> /\ req[r].op = "enqueue"
        BY <1>3 DEF Budget, EnqueueCommit
      <3>1. CASE d \in req[r].dels
        <4>1. /\ row[d].status = "absent" /\ ~Held(d)
              /\ row'[d].status \in {"queued", "dead"}
              /\ row'[d].attempts = 0 /\ row'[d].max_attempts = MAX_ATTEMPTS
          BY <1>0, <1>3, <3>1 DEF EnqueueCommit, RequestInv, IInv, DeliveryInv, Unused, Budget, LoadedInv
        <4>2. WithinBudget(d)'
          BY <3>0, <4>1, BoundAssumption DEF WithinBudget, Counted, Spent, Held, Senders
        <4>3. QED  BY <4>1, <4>2 DEF TERMINAL_STATUSES
      <3>2. CASE d \notin req[r].dels
        <4>1. Gentle(d) /\ Calm(d)  BY <1>3, <3>0, <3>2 DEF EnqueueCommit, Gentle, Calm
        <4>2. QED  BY <3>0, <4>1, GentleKeeps
      <3>3. QED  BY <3>1, <3>2
    <2>3. QED  BY <1>0, <2>1, <2>2, BudgetStepwise
  <1>4. CASE Abort(r)
    <2>1. \A d \in Deliveries : Gentle(d) /\ Calm(d)  BY <1>4 DEF Abort, Gentle, Calm
    <2>2. \A q \in Requests : req'[q] = req[q] \/ req'[q] = NoRequest  BY <1>0, <1>4 DEF Abort
    <2>3. QED  BY <1>0, <1>4, <2>1, <2>2, GentleStep DEF Abort
  <1>5. ASSUME NEW d \in Deliveries, RetryRead(r, d) PROVE Budget'
    <2> DEFINE new == [NoRequest EXCEPT !.op = "retry", !.dels = {d}, !.secret = hook[HookOf[d]].secret,
                                        !.rows = [NoRequest.rows EXCEPT ![d] = row[d]]]
    <2>1. new.op = "retry" /\ new.dels = {d} /\ new.rows[d] = row[d]  BY DEF NoRequest
    <2>2. row[d].status \in TERMINAL_STATUSES \cup {"failed"}  BY <1>5 DEF RetryRead
    <2>3. UNCHANGED <<row, job, retried>> /\ req' = [req EXCEPT ![r] = new]  BY <1>5 DEF RetryRead
    <2> HIDE DEF new
    <2>4. QED  BY <1>1, <2>1, <2>2, <2>3
  <1>6. ASSUME NEW d \in Deliveries, RetryCommit(r, d) PROVE Budget'
    <2>1. row[d] \in Row /\ req[r].rows[d] \in Row  BY <1>0 DEF Request
    <2>2. /\ row'[d] = Retried(row[d], req[r].rows[d], req[r].secret)
          /\ \A e \in Deliveries \ {d} : row'[e] = row[e]
          /\ \A q \in Requests : req'[q] = IF q = r THEN NoRequest ELSE req[q]
          /\ req[r].op = "retry" /\ req[r].dels = {d} /\ job' = job /\ row[d].status # "deleted"
          /\ retried' = IF req[r].rows[d].status = "failed" THEN retried ELSE retried \cup {d}
      BY <1>0, <1>6 DEF RetryCommit
    <2>3. CASE req[r].rows[d].status = "failed"
      <3>1. Same(row'[d], row[d])  BY <2>1, <2>2, <2>3, RetriedFields
      <3>2. \A e \in Deliveries : Gentle(e) /\ Calm(e)  BY <2>2, <3>1 DEF Same, Gentle, Calm
      <3>3. QED  BY <1>0, <2>2, <2>3, <3>2, GentleStep
    <2>4. CASE req[r].rows[d].status # "failed"
      <3>1. /\ row'[d].status = "queued" /\ row'[d].attempts = row[d].attempts
            /\ row'[d].max_attempts = IF req[r].rows[d].max_attempts = req[r].rows[d].attempts + 1
                                      THEN row[d].max_attempts ELSE req[r].rows[d].attempts + 1
        BY <2>1, <2>2, <2>4 DEF Retried, Row
      <3>2. WithinBudget(d)'
        <4>1. row[d].status # "absent"  BY <1>0, <2>2 DEF RequestInv
        <4>2. CASE ~OneRequest
          BY <2>2, <2>4, <3>1, <4>2 DEF WithinBudget, Counted, OneRequest
        <4>3. CASE OneRequest
          <5>1. /\ row[d].status \in TERMINAL_STATUSES
                /\ row'[d].max_attempts = row[d].attempts + 1
                /\ row[d].attempts \in Nat /\ row'[d].attempts = row[d].attempts
            BY <2>1, <2>2, <2>4, <3>1, <4>3 DEF Budget, LoadedInv, Row
          <5>2. \A s \in Senders : job[s][d] # "save_failed"
            <6>1. DeliveryInv(d) /\ WithinBudget(d) /\ Counted(d)
              BY <4>3 DEF IInv, Budget, Counted
            <6>2. QED
              BY <5>1, <6>1 DEF DeliveryInv, Owned, WithinBudget, Spent, Senders, TERMINAL_STATUSES
          <5>3. QED
            BY <2>2, <2>4, <3>1, <5>1, <5>2 DEF WithinBudget, Counted, Spent, PENDING_STATUSES
        <4>4. QED  BY <4>2, <4>3
      <3>3. \A e \in Deliveries \ {d} : Gentle(e) /\ WithinBudget(e)'
        <4>1. \A e \in Deliveries \ {d} : Gentle(e) /\ Calm(e)  BY <2>2 DEF Gentle, Calm
        <4>2. \A e \in Deliveries \ {d} : e \in retried' <=> e \in retried  BY <2>2
        <4>3. \A e \in Deliveries : WithinBudget(e)  BY DEF Budget
        <4>4. QED  BY <4>1, <4>2, <4>3, GentleKeeps
      <3>4. LoadedInv'
        <4>1. SUFFICES ASSUME NEW q \in Requests, q # r, NEW e \in req[q].dels
                       PROVE  /\ req[q].op = "enqueue" => /\ req[q].rows[e].attempts = 0
                                                          /\ req[q].rows[e].max_attempts = MAX_ATTEMPTS
                              /\ ~OneRequest
          BY <2>2 DEF LoadedInv, OneRequest, NoRequest
        <4>2. QED  BY <4>1 DEF Budget, LoadedInv, OneRequest
      <3>5. QED  BY <3>2, <3>3, <3>4 DEF Budget
    <2>5. QED  BY <2>3, <2>4
  <1>7. ASSUME NEW h \in Hooks, RotateRead(r, h) PROVE Budget'
    <2> DEFINE new == [NoRequest EXCEPT !.op = "rotate", !.hooks = {h}, !.secret = secrets',
                                        !.dels = RowsOf(h) \cap RowsWith(PENDING_STATUSES)]
    <2>1. new.op = "rotate"  BY DEF NoRequest
    <2>2. UNCHANGED <<row, job, retried>> /\ req' = [req EXCEPT ![r] = new]  BY <1>7 DEF RotateRead
    <2> HIDE DEF new
    <2>3. QED  BY <1>1, <2>1, <2>2
  <1>8. ASSUME NEW h \in Hooks, RotateCommit(r, h) PROVE Budget'
    <2>1. \A d \in Deliveries : Gentle(d) /\ Calm(d)
      <3>1. SUFFICES ASSUME NEW d \in Deliveries PROVE Gentle(d) /\ Calm(d)  OBVIOUS
      <3>2. row[d] \in Row  BY <1>0
      <3>3. row'[d] = [row[d] EXCEPT !.signature = req[r].secret] \/ row'[d] = row[d]
        BY <1>8 DEF RotateCommit
      <3>4. Same(row'[d], row[d])  BY <3>2, <3>3 DEF Same, Row
      <3>5. QED  BY <1>8, <3>4, SameIsGentle, StillIsCalm DEF RotateCommit
    <2>2. \A q \in Requests : req'[q] = req[q] \/ req'[q] = NoRequest
      BY <1>0, <1>8 DEF RotateCommit
    <2>3. QED  BY <1>0, <1>8, <2>1, <2>2, GentleStep DEF RotateCommit
  <1>9. QED  BY <1>2, <1>3, <1>4, <1>5, <1>6, <1>7, <1>8 DEF RequestStep

\* The steps of the management routes close rows or leave them.
LEMMA BudgetManagement ==
  ASSUME IInv, TypeOK', Budget, ManagementStep
  PROVE  Budget'
  <1> USE DEF db, process, observed
  <1>0. /\ row \in [Deliveries -> Row] /\ TypeOK
        /\ \A q \in Requests : req[q].dels \subseteq Deliveries
    BY DEF IInv, TypeOK, Request
  <1>1. ASSUME UNCHANGED <<row, process, observed>> PROVE Budget'
    <2>1. \A d \in Deliveries : Gentle(d) /\ Calm(d)  BY <1>1 DEF Gentle, Calm
    <2>2. QED  BY <1>0, <1>1, <2>1, GentleStep
  <1>2. ASSUME NEW ds \in SUBSET Deliveries, NEW status \in {"dead", "cancelled", "deleted"},
               row' = WithStatus(ds, status), UNCHANGED <<process, observed>>,
               \A d \in ds : row[d].status # "absent" /\ (row[d].status # "deleted" \/ status = "deleted")
        PROVE  Budget'
    <2>1. \A d \in Deliveries : Gentle(d) /\ Calm(d)
      <3>1. SUFFICES ASSUME NEW d \in Deliveries PROVE Gentle(d) /\ Calm(d)  OBVIOUS
      <3>2. row[d] \in Row  BY <1>0
      <3>3. row'[d] = IF d \in ds THEN [row[d] EXCEPT !.status = status] ELSE row[d]
        BY <1>2 DEF WithStatus
      <3>4. Gentle(d)
        <4>1. CASE d \in ds
          BY <1>2, <3>2, <3>3, <4>1, StatusFields DEF Gentle, TERMINAL_STATUSES
        <4>2. CASE d \notin ds  BY <3>3, <4>2 DEF Gentle
        <4>3. QED  BY <4>1, <4>2
      <3>5. QED  BY <1>2, <3>4, StillIsCalm
    <2>2. QED  BY <1>0, <1>2, <2>1, GentleStep
  <1>3. ASSUME NEW h \in Hooks,
               CreateHook(h) \/ Activate(h) \/ Deactivate(h) \/ SetUrl(h) \/ DeleteHook(h)
        PROVE  Budget'
    <2>1. CASE Deactivate(h)
      BY <1>2, <2>1 DEF Deactivate, RowsOf, RowsWith, PENDING_STATUSES
    <2>2. CASE DeleteHook(h)
      BY <1>2, <2>2 DEF DeleteHook, RowsOf, RowsWith
    <2>3. CASE CreateHook(h) \/ Activate(h) \/ SetUrl(h)
      BY <1>1, <2>3 DEF CreateHook, Activate, SetUrl
    <2>4. QED  BY <1>3, <2>1, <2>2, <2>3
  <1>4. CASE revoke_all  BY <1>2, <1>4 DEF revoke_all, RowsWith, PENDING_STATUSES
  <1>5. CASE DeleteOwner  BY <1>2, <1>5 DEF DeleteOwner, RowsWith
  <1>6. CASE \E state \in {"active", "inactive"} : SetOwnerActive(state)
    BY <1>1, <1>6 DEF SetOwnerActive
  <1>7. QED  BY <1>3, <1>4, <1>5, <1>6 DEF ManagementStep

\* A verdict to try again is reached, and stored, only where an attempt is left.
LEMMA BudgetSenders ==
  ASSUME IInv, TypeOK', Budget, NEW s \in Senders, NEW d \in Deliveries, SenderStep(s, d)
  PROVE  Budget'
  <1> USE DEF db, process, observed
  <1>0. /\ row \in [Deliveries -> Row] /\ TypeOK /\ DeliveryInv(d) /\ WithinBudget(d)
        /\ \A q \in Requests : req[q].dels \subseteq Deliveries
    BY DEF IInv, TypeOK, Request, Budget
  <1>1. PICK state \in JobStates : JobTo(s, d, state)
    BY DEF SenderStep, Answer, Reload, Store, JobFails, Verdict, JobStates, Answers, Verdicts
  <1>2. /\ job'[s][d] = state
        /\ \A q \in Senders, e \in Deliveries : q # s \/ e # d => job'[q][e] = job[q][e]
    BY <1>0, <1>1, MovedJob
  <1>3. job[s][d] # "none" /\ row[d].status # "absent"
    BY <1>0 DEF SenderStep, Answer, Reload, Store, JobFails, Answers, Verdicts, DeliveryInv, Unused, Held
  <1>4. req' = req /\ retried' = retried /\ \A e \in Deliveries \ {d} : row'[e] = row[e]
    BY <1>0 DEF SenderStep, Answer, Reload, Store, JobFails
  <1>5. \A e \in Deliveries \ {d} : Gentle(e) /\ WithinBudget(e)'
    <2>1. SUFFICES ASSUME NEW e \in Deliveries, e # d PROVE Gentle(e) /\ WithinBudget(e)'
      OBVIOUS
    <2>2. Gentle(e) /\ Calm(e) /\ WithinBudget(e)  BY <1>2, <1>4, <2>1 DEF Gentle, Calm, Budget, Senders
    <2>3. QED  BY <1>4, <2>2, GentleKeeps
  <1>6. ASSUME OneRequest => Gentle(d) \/ row[d].status \notin TERMINAL_STATUSES \cup {"deleted"},
               WithinBudget(d)'
        PROVE  Budget'
    <2>1. \A e \in Deliveries : WithinBudget(e)'  BY <1>5, <1>6
    <2>2. \A e \in Deliveries :
             OneRequest => Gentle(e) \/ row[e].status \notin TERMINAL_STATUSES \cup {"deleted"}
      BY <1>5, <1>6
    <2>3. QED  BY <1>0, <1>4, <2>1, <2>2, BudgetStepwise
  <1>7. ASSUME Gentle(d), state # "save_failed" PROVE Budget'
    <2>1. Calm(d)  BY <1>2, <1>3, <1>7 DEF Calm, Senders
    <2>2. WithinBudget(d)'  BY <1>0, <1>4, <1>7, <2>1, GentleKeeps
    <2>3. QED  BY <1>6, <1>7, <2>2
  <1>8. CASE Answer(s, d)
    <2>1. job' # job \/ state # "save_failed"  BY <1>2, <1>8, MovedJob, <1>0 DEF Answer
    <2>2. state # "save_failed"
      <3>1. \A t : JobTo(s, d, t) => t = state  BY <1>0, <1>2, MovedJob
      <3>2. QED  BY <1>8, <3>1 DEF Answer
    <2>3. QED  BY <1>7, <1>8, <2>2 DEF Answer, Gentle
  <1>9. CASE Reload(s, d)
    <2>1. row' = row  BY <1>9 DEF Reload
    <2>2. Gentle(d)  BY <2>1 DEF Gentle
    <2>3. CASE state # "save_failed"  BY <1>7, <2>2, <2>3
    <2>4. CASE state = "save_failed"
      <3>1. /\ row[d].status = "in_progress" /\ ~(row[d].attempts >= row[d].max_attempts)
            /\ row[d].attempts \in Nat /\ row[d].max_attempts \in Nat
        <4>1. \A t : JobTo(s, d, t) => t = state  BY <1>0, <1>2, MovedJob
        <4>2. QED  BY <1>0, <1>9, <2>4, <4>1 DEF Reload, Verdict, Row
      <3>2. \A q \in Senders : job'[q][d] = IF q = s THEN "save_failed" ELSE job[q][d]
        BY <1>2, <2>4
      <3>3. WithinBudget(d)'
        BY <1>0, <1>3, <1>4, <2>1, <3>1, <3>2 DEF WithinBudget, Counted, Spent, Senders
      <3>4. QED  BY <1>6, <2>2, <3>3
    <2>5. QED  BY <2>3, <2>4
  <1>10. CASE Store(s, d)
    <2>1. state = "none"  BY <1>0, <1>2, <1>10 DEF Store, JobTo, TypeOK
    <2>2. /\ row'[d] = IF row[d].status = "deleted" THEN row[d] ELSE Saved(row[d], job[s][d])
          /\ job[s][d] \in Verdicts
      BY <1>0, <1>10 DEF Store
    <2>3. /\ Saved(row[d], job[s][d]).attempts = row[d].attempts
          /\ Saved(row[d], job[s][d]).max_attempts = row[d].max_attempts
      BY <1>0, <2>2 DEF Saved, Verdicts, Row
    <2>4. CASE row[d].status = "deleted" \/ job[s][d] # "save_failed"
      <3>1. Gentle(d)
        BY <1>0, <1>3, <2>2, <2>3, <2>4, SavedFields DEF Gentle, Verdicts, TERMINAL_STATUSES
      <3>2. QED  BY <1>7, <2>1, <3>1
    <2>5. CASE row[d].status # "deleted" /\ job[s][d] = "save_failed"
      <3>1. row'[d].status = "failed"  BY <1>0, <2>2, <2>5, SavedFields
      <3>2. CASE ~Counted(d)
        <4>1. WithinBudget(d)' /\ ~OneRequest
          BY <1>0, <1>4, <3>1, <3>2 DEF WithinBudget, Counted, OneRequest
        <4>2. QED  BY <1>6, <4>1
      <3>3. CASE Counted(d)
        <4>1. ~Spent(d) /\ row[d].attempts < row[d].max_attempts
          BY <1>0, <2>5, <3>3 DEF WithinBudget
        <4>2. row[d].status = "in_progress"
          BY <1>0, <2>5, <4>1 DEF DeliveryInv, Owned, Spent, Senders
        <4>3. WithinBudget(d)'
          BY <1>0, <1>2, <1>4, <2>1, <2>2, <2>3, <2>5, <3>1, <4>1
             DEF WithinBudget, Counted, Spent, Senders
        <4>4. QED  BY <1>6, <4>2, <4>3 DEF TERMINAL_STATUSES
      <3>4. QED  BY <3>2, <3>3
    <2>6. QED  BY <2>4, <2>5
  <1>11. CASE JobFails(s, d)
    <2>1. state = "none"  BY <1>0, <1>2, <1>11 DEF JobFails, JobTo, TypeOK
    <2>2. QED  BY <1>7, <1>11, <2>1 DEF JobFails, Gentle
  <1>12. QED  BY <1>8, <1>9, <1>10, <1>11 DEF SenderStep

\* A test spends the attempt it has; a row is discarded or waits.
LEMMA BudgetRows ==
  ASSUME IInv, TypeOK', Budget, NEW d \in Deliveries,
         TestStart(d) \/ Start(d) \/ BackoffEnds(d) \/ ClaimTimesOut(d)
  PROVE  Budget'
  <1> USE DEF db, process, observed
  <1>0. /\ row \in [Deliveries -> Row] /\ TypeOK /\ DeliveryInv(d) /\ WithinBudget(d) /\ row[d] \in Row
        /\ \A q \in Requests : req[q].dels \subseteq Deliveries
    BY DEF IInv, TypeOK, Request, Budget
  <1>1. req' = req /\ retried' = retried /\ \A e \in Deliveries \ {d} : row'[e] = row[e]
    BY <1>0 DEF TestStart, Start, BackoffEnds, ClaimTimesOut
  <1>2. \A e \in Deliveries \ {d} : \A s \in Senders : job'[s][e] = job[s][e]
    BY <1>0, MovedJob DEF TestStart, Start, BackoffEnds, ClaimTimesOut, Senders
  <1>3. \A e \in Deliveries \ {d} : Gentle(e) /\ WithinBudget(e)'
    <2>1. SUFFICES ASSUME NEW e \in Deliveries, e # d PROVE Gentle(e) /\ WithinBudget(e)'
      OBVIOUS
    <2>2. Gentle(e) /\ Calm(e) /\ WithinBudget(e)
      BY <1>1, <1>2, <2>1, StillIsCalm DEF Gentle, Budget
    <2>3. QED  BY <1>1, <2>2, GentleKeeps
  <1>4. ASSUME OneRequest => Gentle(d) \/ row[d].status \notin TERMINAL_STATUSES \cup {"deleted"},
               WithinBudget(d)'
        PROVE  Budget'
    <2>1. \A e \in Deliveries : WithinBudget(e)'  BY <1>3, <1>4
    <2>2. \A e \in Deliveries :
             OneRequest => Gentle(e) \/ row[e].status \notin TERMINAL_STATUSES \cup {"deleted"}
      BY <1>3, <1>4
    <2>3. QED  BY <1>0, <1>1, <2>1, <2>2, BudgetStepwise
  <1>5. ASSUME Gentle(d), Calm(d) PROVE Budget'
    <2>1. WithinBudget(d)'  BY <1>0, <1>1, <1>5, GentleKeeps
    <2>2. QED  BY <1>4, <1>5, <2>1
  <1>6. CASE TestStart(d)
    <2> DEFINE new == delivery_row(HookOf[d], 1)
    <2>1. /\ new \in Row /\ new.status \in {"queued", "dead"}
          /\ new.max_attempts = 1 /\ new.attempts = 0
      BY <1>0, DeliveryRowType, NewRowFields, HookOfAssumption DEF delivery_row, Absent
    <2>2. row[d].status = "absent" /\ ~Held(d)
      BY <1>0, <1>6 DEF TestStart, Fresh, DeliveryInv, Unused
    <2>3. \/ row' = [row EXCEPT ![d] = [new EXCEPT !.status = "in_progress", !.attempts = 1]]
             /\ JobTo("test", d, "sending")
          \/ row' = [row EXCEPT ![d] = new] /\ new.status = "dead" /\ job' = job
      BY <1>6, <2>1 DEF TestStart
    <2> HIDE DEF new
    <2>4. /\ row'[d].max_attempts = 1
          /\ \/ row'[d].status = "in_progress" /\ row'[d].attempts = 1
             \/ row'[d].status = "dead" /\ row'[d].attempts = 0
      <3>1. CASE row' = [row EXCEPT ![d] = new] /\ new.status = "dead"
        BY <1>0, <2>1, <3>1
      <3>2. CASE row' = [row EXCEPT ![d] = [new EXCEPT !.status = "in_progress", !.attempts = 1]]
        <4>1. row'[d] = [new EXCEPT !.status = "in_progress", !.attempts = 1]  BY <1>0, <3>2
        <4>2. QED  BY <2>1, <4>1, TestRowFields
      <3>3. QED  BY <2>3, <3>1, <3>2
    <2>5. \A s \in Senders : job'[s][d] # "save_failed"
      BY <1>0, <2>2, <2>3, MovedJob DEF Held, Senders
    <2>6. WithinBudget(d)'
      BY <1>0, <1>1, <2>2, <2>4, <2>5 DEF WithinBudget, Counted, Spent, PENDING_STATUSES
    <2>7. QED  BY <1>4, <2>2, <2>6 DEF TERMINAL_STATUSES
  <1>7. CASE Start(d)
    <2>1. Gentle(d)
      <3>1. CASE row[d].status = "in_progress" /\ ~Deliverable(d)
        <4>1. row' = [row EXCEPT ![d].status = "dead"]  BY <1>7, <3>1 DEF Start
        <4>2. row'[d] = [row[d] EXCEPT !.status = "dead"]  BY <1>0, <4>1
        <4>3. QED  BY <1>0, <3>1, <4>2, StatusFields DEF Gentle, TERMINAL_STATUSES
      <3>2. CASE ~(row[d].status = "in_progress" /\ ~Deliverable(d))
        <4>1. row' = row  BY <1>7, <3>2 DEF Start
        <4>2. QED  BY <4>1 DEF Gentle
      <3>3. QED  BY <3>1, <3>2
    <2>2. Calm(d)
      BY <1>0, <1>7, MovedJob DEF Start, Calm, Senders
    <2>3. QED  BY <1>5, <2>1, <2>2
  <1>8. CASE BackoffEnds(d) \/ ClaimTimesOut(d)
    <2>1. \/ row'[d] = [row[d] EXCEPT !.next_attempt_at = "now"]
          \/ row'[d] = [row[d] EXCEPT !.last_attempt_at = "stale"]
      BY <1>0, <1>8 DEF BackoffEnds, ClaimTimesOut
    <2>2. Gentle(d)  BY <1>0, <2>1 DEF Gentle, Row
    <2>3. Calm(d)  BY <1>8 DEF BackoffEnds, ClaimTimesOut, Calm
    <2>4. QED  BY <1>5, <2>2, <2>3
  <1>9. QED  BY <1>6, <1>7, <1>8

\* A reset opens a row again only where an attempt is left, and a claim takes one.
LEMMA BudgetWorker ==
  ASSUME IInv, TypeOK', Budget, WorkerStep \/ Crash \/ Restart \/ UNCHANGED vars
  PROVE  Budget'
  <1> USE DEF db, process, observed
  <1>0. /\ TypeOK /\ row \in [Deliveries -> Row] /\ WorkerInv
        /\ \A d \in Deliveries : DeliveryInv(d) /\ WithinBudget(d) /\ row[d] \in Row
        /\ \A q \in Requests : req[q].dels \subseteq Deliveries
    BY DEF IInv, TypeOK, Request, Budget
  <1>1. retried' = retried /\ \A q \in Requests : req'[q] = req[q] \/ req'[q] = NoRequest
    BY DEF WorkerStep, HousekeepingSelect, HousekeepingDelete, reset_in_progress_on_startup,
       reset_stale, claim_due, RoundEnds, LoopError, Crash, Restart, vars
  <1>2. CASE HousekeepingSelect \/ RoundEnds \/ LoopError \/ Crash \/ Restart \/ UNCHANGED vars
    <2>1. row' = row /\ (job' = job \/ job' = [s \in Senders |-> NoJobs])
      BY <1>2 DEF HousekeepingSelect, RoundEnds, LoopError, Crash, Restart, vars
    <2>2. \A d \in Deliveries : Gentle(d)  BY <2>1 DEF Gentle
    <2>3. \A d \in Deliveries : Calm(d)  BY <2>1 DEF Calm, NoJobs, Senders
    <2>4. QED  BY <1>0, <1>1, <2>2, <2>3, GentleStep
  <1>3. CASE HousekeepingDelete
    <2>1. ASSUME NEW d \in Deliveries PROVE Gentle(d) /\ Calm(d)
      <3>1. row'[d] = IF d \in purge THEN [row[d] EXCEPT !.status = "deleted"] ELSE row[d]
        BY <1>3 DEF HousekeepingDelete, WithStatus
      <3>2. d \in purge => row[d].status # "absent"  BY <1>0 DEF DeliveryInv, Unused
      <3>3. Gentle(d)
        <4>1. CASE d \in purge  BY <1>0, <3>1, <3>2, <4>1, StatusFields DEF Gentle
        <4>2. CASE d \notin purge  BY <3>1, <4>2 DEF Gentle
        <4>3. QED  BY <4>1, <4>2
      <3>4. QED  BY <1>3, <3>3, StillIsCalm DEF HousekeepingDelete
    <2>2. QED  BY <1>0, <1>1, <2>1, GentleStep
  <1>4. CASE reset_in_progress_on_startup \/ reset_stale
    <2>1. PICK ds \in SUBSET RowsWith({"in_progress"}) : row' = ResetRows(ds)
      BY <1>4 DEF reset_in_progress_on_startup, reset_stale
    <2>2. job' = job /\ Idle("worker")
      BY <1>0, <1>4 DEF reset_in_progress_on_startup, reset_stale, WorkerTo, WorkerInv
    <2>3. ASSUME NEW d \in Deliveries
          PROVE  /\ WithinBudget(d)'
                 /\ OneRequest => Gentle(d) \/ row[d].status \notin TERMINAL_STATUSES \cup {"deleted"}
      <3>0. Calm(d)  BY <2>2, StillIsCalm
      <3>1. CASE d \notin ds
        <4>1. Gentle(d)  BY <2>1, <3>1 DEF ResetRows, Gentle
        <4>2. QED  BY <1>0, <1>1, <3>0, <4>1, GentleKeeps
      <3>2. CASE d \in ds
        <4>1. row[d].status = "in_progress"  BY <2>1, <3>2 DEF RowsWith
        <4>2. /\ row'[d].attempts = row[d].attempts /\ row'[d].max_attempts = row[d].max_attempts
              /\ row'[d].status = IF row[d].attempts >= row[d].max_attempts THEN "dead" ELSE "failed"
          BY <1>0, <2>1, <3>2 DEF ResetRows, Row
        <4>3. CASE row[d].attempts >= row[d].max_attempts
          <5>1. Gentle(d)  BY <4>1, <4>2, <4>3 DEF Gentle, TERMINAL_STATUSES
          <5>2. QED  BY <1>0, <1>1, <3>0, <5>1, GentleKeeps
        <4>4. CASE ~(row[d].attempts >= row[d].max_attempts)
          <5>1. row[d].attempts \in Nat /\ row[d].max_attempts \in Nat  BY <1>0 DEF Row
          <5>2. WithinBudget(d)'
            BY <1>0, <1>1, <2>2, <4>1, <4>2, <4>4, <5>1 DEF WithinBudget, Counted, Spent, Senders
          <5>3. QED  BY <4>1, <5>2 DEF TERMINAL_STATUSES
        <4>5. QED  BY <4>3, <4>4
      <3>3. QED  BY <3>1, <3>2
    <2>4. QED  BY <1>0, <1>1, <2>3, BudgetStepwise
  <1>5. CASE claim_due
    <2>1. PICK ds \in SUBSET Due :
             /\ row' = [d \in Deliveries |-> IF d \in ds THEN Claimed(row[d]) ELSE row[d]]
             /\ job' = [job EXCEPT !["worker"] =
                          [d \in Deliveries |-> IF d \in ds THEN "claimed" ELSE job["worker"][d]]]
      BY <1>5 DEF claim_due
    <2>2. Idle("worker")  BY <1>0, <1>5 DEF claim_due, WorkerInv
    <2>3. ASSUME NEW d \in Deliveries
          PROVE  /\ WithinBudget(d)'
                 /\ OneRequest => Gentle(d) \/ row[d].status \notin TERMINAL_STATUSES \cup {"deleted"}
      <3>1. /\ job'["test"][d] = job["test"][d]
            /\ job'["worker"][d] = IF d \in ds THEN "claimed" ELSE "none"
            /\ row'[d] = IF d \in ds THEN Claimed(row[d]) ELSE row[d]
        BY <1>0, <2>1, <2>2 DEF TypeOK, Senders, Idle
      <3>2. CASE d \notin ds
        <4>1. Gentle(d) /\ Calm(d)  BY <3>1, <3>2 DEF Gentle, Calm, Senders
        <4>2. QED  BY <1>0, <1>1, <4>1, GentleKeeps
      <3>3. CASE d \in ds
        <4>1. row[d].status \in PENDING_STATUSES  BY <2>1, <3>3 DEF Due, RowsWith
        <4>2. /\ row'[d].attempts = row[d].attempts + 1 /\ row'[d].max_attempts = row[d].max_attempts
              /\ row'[d].status = "in_progress"
              /\ row[d].attempts \in Nat /\ row[d].max_attempts \in Nat
          BY <1>0, <3>1, <3>3 DEF Claimed, Row
        <4>3. WithinBudget(d)'
          <5>1. Spent(d)' <=> Spent(d)  BY <1>1, <3>1 DEF Spent
          <5>2. Counted(d)' <=> Counted(d)  BY <1>1 DEF Counted, OneRequest
          <5>3. Counted(d) => \A s \in Senders : job'[s][d] # "save_failed"
            BY <1>0, <3>1, <3>3 DEF WithinBudget, Spent, Senders
          <5>4. WithinBudget(d)  BY <1>0
          <5>5. QED  BY <4>1, <4>2, <5>1, <5>2, <5>3, <5>4 DEF WithinBudget, PENDING_STATUSES
        <4>4. QED  BY <4>1, <4>3 DEF PENDING_STATUSES, TERMINAL_STATUSES
      <3>4. QED  BY <3>2, <3>3
    <2>4. QED  BY <1>0, <1>1, <2>3, BudgetStepwise
  <1>6. QED  BY <1>2, <1>3, <1>4, <1>5 DEF WorkerStep

LEMMA BudgetInvariant == Spec => []Budget
  <1>1. ASSUME Init PROVE Budget
    <2>1. LoadedInv  BY <1>1 DEF Init, LoadedInv, NoRequest
    <2>2. \A d \in Deliveries : WithinBudget(d)
      BY <1>1 DEF Init, WithinBudget, Counted, Spent, NoJobs, Absent, PENDING_STATUSES, Senders
    <2>3. QED  BY <2>1, <2>2 DEF Budget
  <1>2. ASSUME IInv, TypeOK', Budget, [Next]_vars PROVE Budget'
    BY <1>2, BudgetRequests, BudgetManagement, BudgetSenders, BudgetRows, BudgetWorker DEF Next
  <1>3. QED  BY <1>1, <1>2, TypeCorrect, InductiveInvariant, PTL DEF Spec

\* A delivery the owner has not reopened is never attempted more often than its
\* budget allows, whatever crashes and however many requests interleave: claim_due
\* counts, and both resets, apply_result and the table of retries respect it.
THEOREM UnretriedWithinBudget ==
  Spec => [](\A d \in Deliveries \ retried : row[d].attempts <= row[d].max_attempts)
  <1>1. Budget => \A d \in Deliveries \ retried : row[d].attempts <= row[d].max_attempts
    BY DEF Budget, WithinBudget, Counted
  <1>2. QED  BY <1>1, BudgetInvariant, PTL

\* With retries that do not overlap, no delivery is: a retry grants one attempt,
\* to be used once ("genau einem weiteren Versuch", retry_my_delivery).
THEOREM BudgetIsKept ==
  ASSUME OneRequest
  PROVE  Spec => []AttemptsWithinBudget
  <1>1. Budget => AttemptsWithinBudget
    BY DEF Budget, WithinBudget, Counted, AttemptsWithinBudget
  <1>2. QED  BY <1>1, BudgetInvariant, PTL

============================================================================
