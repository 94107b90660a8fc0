---------------------------- MODULE WebhookOutbox ----------------------------
(***************************************************************************)
(* The webhook outbox of the backend: the table webhook_deliveries, the    *)
(* background worker that empties it (services/webhook_worker.py), the     *)
(* management routes that change it (routers/webhooks.py with              *)
(* services/webhook_outbox.py), and the revocation of a user's accesses.   *)
(*                                                                         *)
(* Every database transaction whose reads and writes are separated by an   *)
(* await is two actions, a read (its REPEATABLE READ snapshot) and a       *)
(* commit; it may also abort.  HTTP requests to a receiver hold no         *)
(* transaction: the row is read, the connection released, the answer       *)
(* awaited, the row read again and written.                                *)
(*                                                                         *)
(* Time is abstract.  A backoff, the 300 s after which a claimed row is    *)
(* stale and the 30 days of retention may each run out at any moment, with *)
(* one exception: a row that a live sender holds is never stale, because a *)
(* batch of CLAIM_BATCH rows, MAX_PARALLEL at a time and 30 s each, ends   *)
(* after 150 s.                                                            *)
(***************************************************************************)
EXTENDS Naturals, FiniteSets

CONSTANTS Hooks,        \* ids of webhooks; all of them belong to one owner
          Deliveries,   \* delivery ids (UUIDs): each is used for one row at most
          HookOf,       \* the webhook a delivery id is for
          Requests,     \* HTTP requests that hold an open transaction
          MAX_ATTEMPTS, \* budget of an event delivery
          CLAIM_BATCH,  \* rows claimed per round
          MAX_PARALLEL, \* deliveries sent at the same time
          AttemptBound, \* bound: no manual retry of a row with this many attempts
          SecretBound,  \* bound: secrets generated
          FaultBound    \* bound: crashes and failed database steps of the worker

ASSUME HookOfAssumption == HookOf \in [Deliveries -> Hooks]
ASSUME BoundAssumption ==
    /\ MAX_ATTEMPTS \in Nat \ {0} /\ CLAIM_BATCH \in Nat \ {0}
    /\ MAX_PARALLEL \in Nat \ {0}
    /\ AttemptBound \in Nat /\ SecretBound \in Nat /\ FaultBound \in Nat

VARIABLES
    row,       \* webhook_deliveries, by delivery id
    hook,      \* webhooks
    owner,     \* users.is_active of the owner, or "deleted"
    worker,    \* where the worker loop is; "down": no process runs
    purge,     \* rows housekeeping selected and has yet to delete
    job,       \* job[s][d]: how far sender s is with delivery d
    req,       \* open request transactions
    secrets,   \* secrets generated so far
    faults,    \* crashes and failed database steps so far
    accepted,  \* observer: deliveries a receiver has processed
    lost,      \* observer: of these, the ones whose confirmation was lost
    retried    \* observer: finished deliveries the owner reopened

db       == <<row, hook, owner>>
process  == <<worker, purge, job, req>>
observed == <<accepted, lost, retried>>
vars     == <<db, process, secrets, faults, observed>>

------------------------------------------------------------------------------
(* Rows and their status                                                    *)

PENDING_STATUSES  == {"queued", "failed"}
TERMINAL_STATUSES == {"succeeded", "dead", "cancelled"}
OpenStatuses      == PENDING_STATUSES \cup {"in_progress"}
Statuses          == OpenStatuses \cup TERMINAL_STATUSES \cup {"absent", "deleted"}

\* A signature is the number of the secret it was made with; 0 is the empty
\* signature of a row whose secret could not be read.
Row == [status : Statuses, attempts : Nat, max_attempts : Nat,
        next_attempt_at : {"now", "later"}, last_attempt_at : {"recent", "stale"},
        signature : Nat]

Absent == [status |-> "absent", attempts |-> 0, max_attempts |-> 0,
           next_attempt_at |-> "now", last_attempt_at |-> "recent", signature |-> 0]

Hook == [state : {"absent", "active", "inactive", "deleted"},
         secret : Nat, url : {"ok", "unreadable"}]

Exists(h)          == hook[h].state \in {"active", "inactive"}
secret_readable(h) == hook[h].secret # 0
url_readable(h)    == hook[h].url = "ok"

RowsWith(S) == {d \in Deliveries : row[d].status \in S}
RowsOf(h)   == {d \in Deliveries : HookOf[d] = h}

\* Mutant: every row gets the budget of an event.
delivery_row_one_budget(h, budget) ==
    [Absent EXCEPT !.status = IF secret_readable(h) /\ url_readable(h) THEN "queued" ELSE "dead",
                   !.max_attempts = MAX_ATTEMPTS,
                   !.signature = hook[h].secret]

\* delivery_row: a row that cannot be signed or addressed is born dead.
delivery_row(h, budget) ==
    [Absent EXCEPT !.status = IF secret_readable(h) /\ url_readable(h) THEN "queued" ELSE "dead",
                   !.max_attempts = budget,
                   !.signature = hook[h].secret]

\* UPDATE webhook_deliveries SET status WHERE id IN ds
WithStatus(ds, status) ==
    [d \in Deliveries |-> IF d \in ds THEN [row[d] EXCEPT !.status = status] ELSE row[d]]

------------------------------------------------------------------------------
(* Senders: the worker, and the request that sends a test delivery          *)

Senders == {"worker", "test"}
Answers == {"ok", "retryable", "permanent"}
Verdicts == {"save_succeeded", "save_failed", "save_dead"}
JobStates == {"none", "claimed", "sending"} \cup Answers \cup Verdicts

Idle(s)      == \A d \in Deliveries : job[s][d] = "none"
Held(d)      == \E s \in Senders : job[s][d] # "none"
InFlight(s)  == {d \in Deliveries : job[s][d] \notin {"none", "claimed"}}
NoJobs       == [d \in Deliveries |-> "none"]
JobTo(s, d, state) == job' = [job EXCEPT ![s][d] = state]

\* A sender holds the receiver's confirmation but has not stored it yet.
Confirmed(s, d) == job[s][d] \in {"ok", "save_succeeded"}

Requesting == {"idle", "enqueue", "retry", "rotate"}
Request == [op : Requesting, hooks : SUBSET Hooks, dels : SUBSET Deliveries,
            rows : [Deliveries -> Row], secret : Nat]
NoRequest == [op |-> "idle", hooks |-> {}, dels |-> {},
              rows |-> [d \in Deliveries |-> Absent], secret |-> 0]

TypeOK ==
    /\ row \in [Deliveries -> Row]
    /\ hook \in [Hooks -> Hook]
    /\ owner \in {"active", "inactive", "deleted"}
    /\ worker \in {"down", "starting", "top", "purging", "reset", "claim", "busy"}
    /\ purge \in SUBSET Deliveries
    /\ job \in [Senders -> [Deliveries -> JobStates]]
    /\ req \in [Requests -> Request]
    /\ secrets \in Nat /\ faults \in Nat
    /\ accepted \in SUBSET Deliveries /\ lost \in SUBSET Deliveries
    /\ retried \in SUBSET Deliveries

Init ==
    /\ row = [d \in Deliveries |-> Absent]
    /\ hook = [h \in Hooks |-> [state |-> "absent", secret |-> 0, url |-> "ok"]]
    /\ owner = "active"
    /\ worker = "starting"
    /\ purge = {}
    /\ job = [s \in Senders |-> NoJobs]
    /\ req = [r \in Requests |-> NoRequest]
    /\ secrets = 0 /\ faults = 0
    /\ accepted = {} /\ lost = {} /\ retried = {}

Up == worker # "down"
OwnerRequest == Up /\ owner = "active"

------------------------------------------------------------------------------
(* Events: rows written in the transaction of the change they report        *)

\* select_recipients: an active webhook of an active owner.  Which of them want
\* the event (scope, zone rights, event filter) is left open: any set of them.
select_recipients == IF owner = "active" THEN {h \in Hooks : hook[h].state = "active"} ELSE {}

Reserved == UNION {req[r].dels : r \in Requests}
Fresh(d) == row[d].status = "absent" /\ d \notin Reserved

EnqueueRead(r) ==
    /\ Up /\ req[r].op = "idle"
    /\ \E ds \in SUBSET Deliveries \ {{}} :
          /\ \A d \in ds : Fresh(d) /\ HookOf[d] \in select_recipients
          /\ \A d, e \in ds : HookOf[d] = HookOf[e] => d = e
          /\ req' = [req EXCEPT ![r] =
                 [NoRequest EXCEPT !.op = "enqueue", !.dels = ds,
                                   !.rows = [d \in Deliveries |->
                                      IF d \in ds THEN delivery_row(HookOf[d], MAX_ATTEMPTS)
                                                  ELSE Absent]]]
    /\ UNCHANGED <<db, worker, purge, job, secrets, faults, observed>>

EnqueueCommit(r) ==
    /\ Up /\ req[r].op = "enqueue"
    /\ row' = [d \in Deliveries |-> IF d \in req[r].dels THEN req[r].rows[d] ELSE row[d]]
    /\ req' = [req EXCEPT ![r] = NoRequest]
    /\ UNCHANGED <<hook, owner, worker, purge, job, secrets, faults, observed>>

\* The caller's change fails, the SAVEPOINT is rolled back, a row or webhook the
\* session loaded is gone, or the database refuses the commit (MariaDB from
\* 11.6.2 on refuses an UPDATE of a row that changed since the snapshot).
Abort(r) ==
    /\ Up /\ req[r].op # "idle"
    /\ req' = [req EXCEPT ![r] = NoRequest]
    /\ UNCHANGED <<db, worker, purge, job, secrets, faults, observed>>

------------------------------------------------------------------------------
(* Manual retry                                                             *)

RetryRead(r, d) ==
    /\ OwnerRequest /\ req[r].op = "idle"
    /\ hook[HookOf[d]].state = "active"
    /\ row[d].status \in TERMINAL_STATUSES \cup {"failed"}
    /\ row[d].status # "failed" => secret_readable(HookOf[d]) /\ url_readable(HookOf[d])
    /\ row[d].attempts < AttemptBound
    /\ req' = [req EXCEPT ![r] =
           [NoRequest EXCEPT !.op = "retry", !.dels = {d}, !.secret = hook[HookOf[d]].secret,
                             !.rows = [NoRequest.rows EXCEPT ![d] = row[d]]]]
    /\ UNCHANGED <<db, worker, purge, job, secrets, faults, observed>>

\* The session writes the attributes that differ from what it loaded, whatever
\* has become of the row since.
Retried(now, loaded, secret) ==
    IF loaded.status = "failed"
    THEN [now EXCEPT !.next_attempt_at = "now"]
    ELSE [now EXCEPT !.status = "queued",
                     !.max_attempts = IF loaded.max_attempts = loaded.attempts + 1
                                      THEN @ ELSE loaded.attempts + 1,
                     !.next_attempt_at = "now",
                     !.signature = IF loaded.signature = secret THEN @ ELSE secret]

RetryCommit(r, d) ==
    /\ Up /\ req[r].op = "retry" /\ req[r].dels = {d}
    /\ row[d].status # "deleted"
    /\ row' = [row EXCEPT ![d] = Retried(@, req[r].rows[d], req[r].secret)]
    /\ retried' = IF req[r].rows[d].status = "failed" THEN retried ELSE retried \cup {d}
    /\ req' = [req EXCEPT ![r] = NoRequest]
    /\ UNCHANGED <<hook, owner, worker, purge, job, secrets, faults, accepted, lost>>

------------------------------------------------------------------------------
(* Webhook management                                                       *)

CreateHook(h) ==
    /\ OwnerRequest /\ hook[h].state = "absent" /\ secrets < SecretBound
    /\ secrets' = secrets + 1
    /\ \E state \in {"active", "inactive"} :
          hook' = [hook EXCEPT ![h] = [state |-> state, secret |-> secrets', url |-> "ok"]]
    /\ UNCHANGED <<row, owner, process, faults, observed>>

Activate(h) ==
    /\ OwnerRequest /\ hook[h].state = "inactive"
    /\ hook' = [hook EXCEPT ![h].state = "active"]
    /\ UNCHANGED <<row, owner, process, secrets, faults, observed>>

\* With cancel_pending, in the same transaction.
Deactivate(h) ==
    /\ OwnerRequest /\ hook[h].state = "active"
    /\ hook' = [hook EXCEPT ![h].state = "inactive"]
    /\ row' = WithStatus(RowsOf(h) \cap RowsWith(PENDING_STATUSES), "dead")
    /\ UNCHANGED <<owner, process, secrets, faults, observed>>

SetUrl(h) ==
    /\ OwnerRequest /\ Exists(h)
    /\ hook' = [hook EXCEPT ![h].url = "ok"]
    /\ UNCHANGED <<row, owner, process, secrets, faults, observed>>

\* resign_pending picks the rows to sign again from the transaction's snapshot.
RotateRead(r, h) ==
    /\ OwnerRequest /\ req[r].op = "idle" /\ Exists(h) /\ secrets < SecretBound
    /\ secrets' = secrets + 1
    /\ req' = [req EXCEPT ![r] =
           [NoRequest EXCEPT !.op = "rotate", !.hooks = {h}, !.secret = secrets',
                             !.dels = RowsOf(h) \cap RowsWith(PENDING_STATUSES)]]
    /\ UNCHANGED <<db, worker, purge, job, faults, observed>>

RotateCommit(r, h) ==
    /\ Up /\ req[r].op = "rotate" /\ req[r].hooks = {h} /\ Exists(h)
    /\ hook' = [hook EXCEPT ![h].secret = req[r].secret]
    /\ row' = [d \in Deliveries |->
                 IF d \in req[r].dels /\ row[d].status # "deleted"
                 THEN [row[d] EXCEPT !.signature = req[r].secret] ELSE row[d]]
    /\ req' = [req EXCEPT ![r] = NoRequest]
    /\ UNCHANGED <<owner, worker, purge, job, secrets, faults, observed>>

DeleteHook(h) ==
    /\ OwnerRequest /\ Exists(h)
    /\ hook' = [hook EXCEPT ![h].state = "deleted"]
    /\ row' = WithStatus(RowsOf(h) \cap RowsWith(Statuses \ {"absent"}), "deleted")
    /\ UNCHANGED <<owner, process, secrets, faults, observed>>

\* Mutant: what is being sent is cancelled too.
revoke_all_open ==
    /\ Up /\ owner # "deleted"
    /\ hook' = [h \in Hooks |-> IF hook[h].state = "active"
                                THEN [hook[h] EXCEPT !.state = "inactive"] ELSE hook[h]]
    /\ row' = WithStatus(RowsWith(OpenStatuses), "cancelled")
    /\ UNCHANGED <<owner, process, secrets, faults, observed>>

\* An administrator revokes all accesses of the owner.
revoke_all ==
    /\ Up /\ owner # "deleted"
    /\ hook' = [h \in Hooks |-> IF hook[h].state = "active"
                                THEN [hook[h] EXCEPT !.state = "inactive"] ELSE hook[h]]
    /\ row' = WithStatus(RowsWith(PENDING_STATUSES), "cancelled")
    /\ UNCHANGED <<owner, process, secrets, faults, observed>>

SetOwnerActive(state) ==
    /\ Up /\ owner \in {"active", "inactive"} \ {state}
    /\ owner' = state
    /\ UNCHANGED <<row, hook, process, secrets, faults, observed>>

DeleteOwner ==
    /\ Up /\ owner # "deleted"
    /\ owner' = "deleted"
    /\ hook' = [h \in Hooks |-> IF Exists(h) THEN [hook[h] EXCEPT !.state = "deleted"] ELSE hook[h]]
    /\ row' = WithStatus(RowsWith(Statuses \ {"absent"}), "deleted")
    /\ UNCHANGED <<process, secrets, faults, observed>>

------------------------------------------------------------------------------
(* Sending: the three steps of _process and of test_my_webhook              *)

\* create_test_delivery and its commit.  One test per user at a time.
TestStart(d) ==
    /\ OwnerRequest /\ Idle("test") /\ Fresh(d) /\ Exists(HookOf[d])
    /\ LET new == delivery_row(HookOf[d], 1) IN
          IF new.status = "queued"
          THEN /\ row' = [row EXCEPT ![d] = [new EXCEPT !.status = "in_progress", !.attempts = 1]]
               /\ JobTo("test", d, "sending")
          ELSE row' = [row EXCEPT ![d] = new] /\ UNCHANGED job
    /\ UNCHANGED <<hook, owner, worker, purge, req, secrets, faults, observed>>

Deliverable(d) ==
    /\ hook[HookOf[d]].state = "active" /\ owner = "active"
    /\ url_readable(HookOf[d]) /\ row[d].signature # 0

\* Step 1 of _process, once the semaphore is free: read, check, discard or send.
Start(d) ==
    /\ job["worker"][d] = "claimed"
    /\ Cardinality(InFlight("worker")) < MAX_PARALLEL
    /\ IF row[d].status = "in_progress" /\ Deliverable(d)
       THEN JobTo("worker", d, "sending") /\ UNCHANGED row
       ELSE /\ JobTo("worker", d, "none")
            /\ row' = IF row[d].status = "in_progress"
                      THEN [row EXCEPT ![d].status = "dead"] ELSE row
    /\ UNCHANGED <<hook, owner, worker, purge, req, secrets, faults, observed>>

\* The receiver processes the delivery or not; its answer may be lost.
Answer(s, d) ==
    /\ job[s][d] = "sending"
    /\ \/ JobTo(s, d, "ok") /\ accepted' = accepted \cup {d} /\ UNCHANGED lost
       \/ /\ JobTo(s, d, "retryable")
          /\ accepted' = accepted \cup {d} /\ lost' = lost \cup {d}
       \/ \E a \in {"retryable", "permanent"} : JobTo(s, d, a) /\ UNCHANGED <<accepted, lost>>
    /\ UNCHANGED <<db, worker, purge, req, secrets, faults, retried>>

\* Mutant: any final answer counts as a success.
Verdict_any_final(r, answer) ==
    IF answer # "retryable" THEN "save_succeeded"
    ELSE IF r.attempts >= r.max_attempts THEN "save_dead" ELSE "save_failed"

\* apply_result
Verdict(r, answer) ==
    IF answer = "ok" THEN "save_succeeded"
    ELSE IF answer = "permanent" \/ r.attempts >= r.max_attempts THEN "save_dead"
    ELSE "save_failed"

\* Mutant: the webhook is checked again after the post.
Reload_rechecks(s, d) ==
    /\ job[s][d] \in Answers
    /\ IF row[d].status = "in_progress" /\ Deliverable(d)
       THEN JobTo(s, d, Verdict(row[d], job[s][d])) ELSE JobTo(s, d, "none")
    /\ UNCHANGED <<db, worker, purge, req, secrets, faults, observed>>

\* Step 3: a row that is gone or no longer in_progress keeps its status.
Reload(s, d) ==
    /\ job[s][d] \in Answers
    /\ IF row[d].status = "in_progress"
       THEN JobTo(s, d, Verdict(row[d], job[s][d])) ELSE JobTo(s, d, "none")
    /\ UNCHANGED <<db, worker, purge, req, secrets, faults, observed>>

Saved(r, verdict) ==
    CASE verdict = "save_succeeded" -> [r EXCEPT !.status = "succeeded"]
      [] verdict = "save_dead"      -> [r EXCEPT !.status = "dead"]
      [] verdict = "save_failed"    -> [r EXCEPT !.status = "failed", !.next_attempt_at = "later"]

\* Mutant: the row is merged into the table, whether it is still there or not.
Store_merges(s, d) ==
    /\ job[s][d] \in Verdicts
    /\ row' = [row EXCEPT ![d] = Saved(@, job[s][d])]
    /\ JobTo(s, d, "none")
    /\ UNCHANGED <<hook, owner, worker, purge, req, secrets, faults, observed>>

\* The UPDATE of a row deleted meanwhile matches nothing and raises.
Store(s, d) ==
    /\ job[s][d] \in Verdicts
    /\ row' = IF row[d].status = "deleted" THEN row
              ELSE [row EXCEPT ![d] = Saved(@, job[s][d])]
    /\ JobTo(s, d, "none")
    /\ UNCHANGED <<hook, owner, worker, purge, req, secrets, faults, observed>>

\* A database step of the sender fails: the row stays in_progress.
JobFails(s, d) ==
    /\ job[s][d] \in {"claimed"} \cup Answers \cup Verdicts
    /\ faults < FaultBound /\ faults' = faults + 1
    /\ JobTo(s, d, "none")
    /\ lost' = IF Confirmed(s, d) THEN lost \cup {d} ELSE lost
    /\ UNCHANGED <<db, worker, purge, req, secrets, accepted, retried>>

------------------------------------------------------------------------------
(* The worker loop                                                          *)

WorkerTo(from, to) == worker = from /\ worker' = to

\* housekeeping selects rows past their retention and then deletes them by id.
HousekeepingSelect ==
    /\ WorkerTo("top", "purging")
    /\ purge' \in SUBSET RowsWith(TERMINAL_STATUSES) \ {{}}
    /\ UNCHANGED <<db, job, req, secrets, faults, observed>>

HousekeepingDelete ==
    /\ WorkerTo("purging", "reset")
    /\ row' = WithStatus(purge, "deleted")
    /\ purge' = {}
    /\ UNCHANGED <<hook, owner, job, req, secrets, faults, observed>>

\* Mutant: one attempt too many.
ResetRows_off_by_one(ds) ==
    [d \in Deliveries |->
       IF d \notin ds THEN row[d]
       ELSE IF row[d].attempts > row[d].max_attempts THEN [row[d] EXCEPT !.status = "dead"]
       ELSE [row[d] EXCEPT !.status = "failed", !.next_attempt_at = "now"]]

ResetRows(ds) ==
    [d \in Deliveries |->
       IF d \notin ds THEN row[d]
       ELSE IF row[d].attempts >= row[d].max_attempts THEN [row[d] EXCEPT !.status = "dead"]
       ELSE [row[d] EXCEPT !.status = "failed", !.next_attempt_at = "now"]]

reset_in_progress_on_startup ==
    /\ WorkerTo("starting", "top")
    /\ row' = ResetRows(RowsWith({"in_progress"}))
    /\ UNCHANGED <<hook, owner, purge, job, req, secrets, faults, observed>>

reset_stale ==
    /\ worker \in {"top", "reset"} /\ worker' = "claim"
    /\ row' = ResetRows({d \in RowsWith({"in_progress"}) : row[d].last_attempt_at = "stale"})
    /\ UNCHANGED <<hook, owner, purge, job, req, secrets, faults, observed>>

Due == {d \in RowsWith(PENDING_STATUSES) : row[d].next_attempt_at = "now"}

\* Mutants: a status the table does not know; an attempt that is not counted.
Claimed_unknown(r)   == [r EXCEPT !.status = "sending", !.attempts = r.attempts + 1]
Claimed_uncounted(r) == [r EXCEPT !.status = "in_progress", !.last_attempt_at = "recent"]

Claimed(r) == [r EXCEPT !.status = "in_progress", !.attempts = r.attempts + 1,
                        !.last_attempt_at = "recent"]

claim_due ==
    /\ worker = "claim"
    /\ \E ds \in SUBSET Due :
          /\ Cardinality(ds) <= CLAIM_BATCH
          /\ ds # Due => Cardinality(ds) = CLAIM_BATCH
          /\ worker' = IF ds = {} THEN "top" ELSE "busy"
          /\ row' = [d \in Deliveries |-> IF d \in ds THEN Claimed(row[d]) ELSE row[d]]
          /\ job' = [job EXCEPT !["worker"] =
                       [d \in Deliveries |-> IF d \in ds THEN "claimed" ELSE job["worker"][d]]]
    /\ UNCHANGED <<hook, owner, purge, req, secrets, faults, observed>>

\* gather returns when every claimed row has been processed.
RoundEnds ==
    /\ WorkerTo("busy", "top") /\ Idle("worker")
    /\ UNCHANGED <<db, purge, job, req, secrets, faults, observed>>

\* An exception in the loop, or in the startup reset: the loop starts over.
LoopError ==
    /\ worker \in {"starting", "purging", "reset", "claim"} /\ worker' = "top"
    /\ faults < FaultBound /\ faults' = faults + 1
    /\ purge' = {}
    /\ UNCHANGED <<db, job, req, secrets, observed>>

\* The process dies, or its shutdown cancels what is still running after 8 s.
Crash ==
    /\ Up /\ faults < FaultBound /\ faults' = faults + 1
    /\ worker' = "down" /\ purge' = {}
    /\ job' = [s \in Senders |-> NoJobs]
    /\ req' = [r \in Requests |-> NoRequest]
    /\ lost' = lost \cup {d \in Deliveries : \E s \in Senders : Confirmed(s, d)}
    /\ UNCHANGED <<db, secrets, accepted, retried>>

\* With another key, what is stored encrypted can no longer be read.
Restart ==
    /\ WorkerTo("down", "starting")
    /\ \/ UNCHANGED hook
       \/ hook' = [h \in Hooks |-> IF Exists(h)
                                   THEN [hook[h] EXCEPT !.secret = 0, !.url = "unreadable"]
                                   ELSE hook[h]]
    /\ UNCHANGED <<row, owner, purge, job, req, secrets, faults, observed>>

------------------------------------------------------------------------------
(* Time                                                                     *)

BackoffEnds(d) ==
    /\ row[d].status = "failed" /\ row[d].next_attempt_at = "later"
    /\ row' = [row EXCEPT ![d].next_attempt_at = "now"]
    /\ UNCHANGED <<hook, owner, process, secrets, faults, observed>>

ClaimTimesOut(d) ==
    /\ row[d].status = "in_progress" /\ row[d].last_attempt_at = "recent" /\ ~Held(d)
    /\ row' = [row EXCEPT ![d].last_attempt_at = "stale"]
    /\ UNCHANGED <<hook, owner, process, secrets, faults, observed>>

------------------------------------------------------------------------------
(* Specification                                                            *)

RequestStep(r) ==
    \/ EnqueueRead(r) \/ EnqueueCommit(r) \/ Abort(r)
    \/ \E d \in Deliveries : RetryRead(r, d) \/ RetryCommit(r, d)
    \/ \E h \in Hooks : RotateRead(r, h) \/ RotateCommit(r, h)

ManagementStep ==
    \/ \E h \in Hooks : CreateHook(h) \/ Activate(h) \/ Deactivate(h) \/ SetUrl(h) \/ DeleteHook(h)
    \/ revoke_all \/ DeleteOwner \/ \E state \in {"active", "inactive"} : SetOwnerActive(state)

SenderStep(s, d) == Answer(s, d) \/ Reload(s, d) \/ Store(s, d) \/ JobFails(s, d)

WorkerStep ==
    \/ HousekeepingSelect \/ HousekeepingDelete \/ reset_in_progress_on_startup \/ reset_stale
    \/ claim_due \/ RoundEnds \/ LoopError

Next ==
    \/ \E r \in Requests : RequestStep(r)
    \/ ManagementStep
    \/ \E d \in Deliveries : TestStart(d) \/ Start(d) \/ BackoffEnds(d) \/ ClaimTimesOut(d)
    \/ \E s \in Senders, d \in Deliveries : SenderStep(s, d)
    \/ WorkerStep \/ Crash \/ Restart

\* A process is started again (restart policy of the compose file), its loop keeps
\* running, an HTTP exchange ends within 30 s, housekeeping that has begun goes on,
\* and time passes.  Nothing is assumed of the users, nor that housekeeping begins.
Fairness ==
    /\ WF_vars(Restart) /\ WF_vars(reset_in_progress_on_startup)
    /\ WF_vars(HousekeepingDelete) /\ WF_vars(reset_stale) /\ WF_vars(claim_due)
    /\ WF_vars(RoundEnds)
    /\ \A d \in Deliveries :
          /\ WF_vars(Start(d)) /\ WF_vars(BackoffEnds(d)) /\ WF_vars(ClaimTimesOut(d))
          /\ \A s \in Senders : WF_vars(Answer(s, d)) /\ WF_vars(Reload(s, d)) /\ WF_vars(Store(s, d))

Spec     == Init /\ [][Next]_vars
FairSpec == Spec /\ Fairness

------------------------------------------------------------------------------
(* Properties                                                               *)

\* A delivery shown as succeeded was processed by its receiver, whatever crashed,
\* was retried or changed hands in between.
SuccessWasAccepted == RowsWith({"succeeded"}) \subseteq accepted

\* A delivery its receiver has processed is not left open for another attempt
\* unless the answer or its storing was lost, or the owner sends it again: no
\* interleaving of claims, resets and tests repeats a delivery by itself.
NoUnexplainedResend ==
    \A d \in accepted \ (lost \cup retried) :
        row[d].status \in OpenStatuses => \E s \in Senders : Confirmed(s, d)

\* The worker and the request of a test delivery never post the same row at the
\* same time: the test row is in_progress from its first commit on, so no round
\* claims it, and no reset makes it claimable while the test runs.  (A startup reset
\* that comes after a test began ends its row; if the owner then retries that row
\* while the test still runs, both post it.)
NoConcurrentSend ==
    \A d \in Deliveries \ retried : ~(job["worker"][d] # "none" /\ job["test"][d] # "none")

\* No more attempts than the budget of the row allows ("genau einem weiteren
\* Versuch" after a manual retry).
AttemptsWithinBudget == \A d \in Deliveries : row[d].attempts <= row[d].max_attempts

\* A cancelled delivery is final: neither a sender that still holds it, nor a reset,
\* nor the deactivation of its webhook takes it up again.  Only the owner's retry
\* does, and a delivery retried before is excepted: two retries that read the same
\* finished row can put it back in the queue between the reload and the store of
\* its attempt, and the store then overwrites what a revocation cancelled.
CancelledIsFinal ==
    [][\A d \in Deliveries :
          row[d].status = "cancelled" /\ row'[d].status \notin {"cancelled", "deleted"} =>
             d \in retried']_vars

\* Every open delivery is settled: succeeded, given up, cancelled or deleted.
Settles ==
    \A d \in Deliveries : row[d].status \in OpenStatuses ~> row[d].status \notin OpenStatuses

\* The outbox implements its promise.
Phase(status) ==
    CASE status = "absent"                -> "none"
      [] status \in OpenStatuses          -> "open"
      [] status \in {"dead", "cancelled"} -> "discarded"
      [] OTHER                            -> status

Promise == INSTANCE WebhookPromise WITH phase <- [d \in Deliveries |-> Phase(row[d].status)]

KeepsPromise == Promise!PSpec

\* What the handler of a rotation says, that it signs the open deliveries again:
\* a delivery the worker takes up carries a signature of the current secret.
RotationReachesOpenDeliveries ==
    [][\A d \in Deliveries :
          job["worker"][d] = "none" /\ job'["worker"][d] = "claimed" =>
             row[d].signature = hook[HookOf[d]].secret]_vars

\* What housekeeping says it deletes: deliveries that are finished.
HousekeepingDeletesFinished ==
    [][HousekeepingDelete => RowsWith(OpenStatuses) \cap purge = {}]_vars

==============================================================================
