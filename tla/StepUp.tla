------------------------------- MODULE StepUp -------------------------------
(***************************************************************************)
(* Confirming a protected action in the browser: the step-up store of the  *)
(* frontend (components/sso/stepUpStore.js), the dialog that shows it      *)
(* (components/dialogs/10-stepup.dialog.jsx), the 403 hook of api.js, and  *)
(* the check of the backend (core/auth.py verify_step_up).                 *)
(*                                                                         *)
(* Several protected calls may be under way: the page that started one may *)
(* be left while it waits, and its successor starts the next.  They share  *)
(* one dialog.  Every await of withStepUp is a step of its own: a call is  *)
(* sent, handled by the backend, answered, and may wait for the dialog.    *)
(* The event of api.js and the rejected promise are one step: only         *)
(* microtasks lie between them, so no click can.                           *)
(***************************************************************************)
EXTENDS Naturals, FiniteSets

CONSTANTS
    Calls,        \* slots for protected calls under way
    MaxAttempts,  \* maxAttempts of withStepUp
    FailLimit     \* failed logins after which the backend answers 429

ASSUME StepUpAssumption ==
    /\ IsFiniteSet(Calls)
    /\ MaxAttempts \in Nat
    /\ FailLimit \in Nat \ {0}

VARIABLES
    account,   \* the signed-in account as the backend knows it
    fresh,     \* its session began at most STEP_UP_MAX_AGE_SECONDS ago
    fails,     \* failed logins counted for it, capped at FailLimit
    dialog,    \* the state of the store: closed, or open with a code
    call,      \* the calls of withStepUp
    entered,   \* what the user entered while the call waited (observer)
    effect     \* what the backend carried out for the call (observer)

stepVars == <<account, fresh, fails, dialog, call, entered, effect>>

Entries == {"right", "wrong", "nocode"}  \* what the user can type
Codes == {"none", "stepup_required", "reauth_required"}
CallAnswers == {"none", "ok", "stepup_required", "stepup_failed",
            "reauth_required", "refused"}
Outcomes == {"none", "ok", "aborted", "handled", "failed"}
Effects == {"none", "free", "confirmed", "unconfirmed", "twice"}

Account ==
    [external : BOOLEAN,  \* auth_source is not local
     totp : BOOLEAN,      \* totp_enabled in the database
     knownTotp : BOOLEAN] \* totp_enabled in the cached user object

Call ==
    [phase : {"idle", "asking", "sent", "answered"},
     attempt : 0..MaxAttempts,
     first : BOOLEAN,              \* waiting for the proactive question
     creds : Entries \cup {"none"},
     answer : CallAnswers,
     outcome : Outcomes]

NoCall == [phase |-> "idle", attempt |-> 0, first |-> FALSE, creds |-> "none",
           answer |-> "none", outcome |-> "none"]

Closed == [open |-> FALSE, code |-> "none"]

Opened(code) == [open |-> TRUE, code |-> code]

Waiters == {c \in Calls : call[c].phase = "asking"}

StepUpTypeOK ==
    /\ account \in Account
    /\ fresh \in BOOLEAN
    /\ fails \in 0..FailLimit
    /\ dialog \in [open : BOOLEAN, code : Codes]
    /\ call \in [Calls -> Call]
    /\ entered \in [Calls -> SUBSET Entries]
    /\ effect \in [Calls -> Effects]

StepUpInit ==
    /\ account \in Account
    /\ fresh = TRUE
    /\ fails = 0
    /\ dialog = Closed
    /\ call = [c \in Calls |-> NoCall]
    /\ entered = [c \in Calls |-> {}]
    /\ effect = [c \in Calls |-> "none"]

-----------------------------------------------------------------------------
\* withStepUp (stepUpStore.js) and its callers, sso.tab.jsx handleSave and
\* 50-external.section.jsx handleConvert.

\* A local account is asked before the first request when the page sees a
\* sensitive change; an external one never is.
MayAskFirst == ~account.external

AskedFirst == [NoCall EXCEPT !.phase = "asking", !.first = TRUE]
SentAtOnce == [NoCall EXCEPT !.phase = "sent"]

StartCall(c, proactive) ==
    /\ call[c].phase = "idle"
    /\ proactive => MayAskFirst
    /\ call' = [call EXCEPT ![c] = IF proactive THEN AskedFirst ELSE SentAtOnce]
    /\ dialog' = IF proactive THEN Opened("stepup_required") ELSE dialog
    /\ entered' = [entered EXCEPT ![c] = {}]
    /\ effect' = [effect EXCEPT ![c] = "none"]
    /\ UNCHANGED <<account, fresh, fails>>

Ended(c, outcome) ==
    [call EXCEPT ![c].phase = "idle", ![c].outcome = outcome]

\* requestStepUp: the call waits and the dialog opens, or stays open.
Asking(c) ==
    [call EXCEPT ![c].phase = "asking", ![c].answer = "none"]

\* The answer reaches the call.  api.js has dispatched STEP_UP_EVENT for the
\* two codes of STEP_UP_CODES before the promise is rejected; a wrong entry
\* (stepup_failed) raises no event, the call asks again itself.
DeliverAnswer(c) ==
    /\ call[c].phase = "answered"
    /\ \/ /\ call[c].answer = "ok"
          /\ call' = Ended(c, "ok")
          /\ UNCHANGED dialog
       \/ /\ call[c].answer = "refused"
          /\ call' = Ended(c, "failed")
          /\ UNCHANGED dialog
       \/ /\ call[c].answer = "reauth_required"
          /\ call' = Ended(c, "handled")
          /\ dialog' = Opened("reauth_required")
       \/ /\ call[c].answer \in {"stepup_required", "stepup_failed"}
          /\ call[c].attempt < MaxAttempts
          /\ call' = Asking(c)
          /\ dialog' = Opened("stepup_required")
       \/ /\ call[c].answer \in {"stepup_required", "stepup_failed"}
          /\ call[c].attempt = MaxAttempts
          /\ call' = Ended(c, "failed")
          /\ dialog' = IF call[c].answer = "stepup_required"
                       THEN Opened("stepup_required") ELSE dialog
    /\ UNCHANGED <<account, fresh, fails, entered, effect>>

\* The request or its answer is lost: requestRaw throws the network error,
\* which withStepUp passes on without a second try.  (Mutant: it tries again.)
LoseCall_retries(c) ==
    /\ call[c].phase \in {"sent", "answered"}
    /\ call' = [call EXCEPT ![c].phase = "sent"]
    /\ UNCHANGED <<account, fresh, fails, dialog, entered, effect>>

LoseCall(c) ==
    /\ call[c].phase \in {"sent", "answered"}
    /\ call' = Ended(c, "failed")
    /\ UNCHANGED <<account, fresh, fails, dialog, entered, effect>>

-----------------------------------------------------------------------------
\* The dialog.

ReauthShown == dialog.open /\ (dialog.code = "reauth_required" \/ account.external)
PasswordShown == dialog.open /\ ~ReauthShown

\* The code field is required only if the cached user has a second factor.
CanSubmit(e) == PasswordShown /\ (account.knownTotp => e # "nocode")

\* settle(): all waiters get the entry, and each sends its request again.
\* The first answer to a proactive question is attempt 0, a later one the
\* next attempt.
\* (Mutant: the store keeps one waiter.)
Resumed_one(e) ==
    LET w == CHOOSE x \in Waiters : TRUE
    IN IF Waiters = {} THEN call
       ELSE [call EXCEPT ![w].phase = "sent", ![w].creds = e, ![w].first = FALSE,
               ![w].attempt = IF call[w].first THEN 0 ELSE @ + 1]

Resumed(e) ==
    [c \in Calls |->
       IF c \in Waiters
       THEN [call[c] EXCEPT !.phase = "sent", !.creds = e, !.first = FALSE,
                            !.attempt = IF call[c].first THEN 0 ELSE @ + 1]
       ELSE call[c]]

Submit(e) ==
    /\ CanSubmit(e)
    /\ call' = Resumed(e)
    /\ dialog' = Closed
    /\ entered' = [c \in Calls |-> IF c \in Waiters THEN entered[c] \cup {e}
                                                     ELSE entered[c]]
    /\ UNCHANGED <<account, fresh, fails, effect>>

\* Cancel aborts who waits.  (Mutant: it aborts every call under way.)
Aborted_all ==
    [c \in Calls |->
       IF call[c].phase # "idle"
       THEN [call[c] EXCEPT !.phase = "idle", !.outcome = "aborted"]
       ELSE call[c]]

Aborted ==
    [c \in Calls |->
       IF c \in Waiters
       THEN [call[c] EXCEPT !.phase = "idle", !.outcome = "aborted"]
       ELSE call[c]]

Cancel ==
    /\ dialog.open
    /\ call' = Aborted
    /\ dialog' = Closed
    /\ UNCHANGED <<account, fresh, fails, entered, effect>>

\* "Sign out and sign in again": the waiters are aborted, the session ends,
\* the page is loaded anew (the store and every call with it), and the next
\* session is a fresh one.
Reauth ==
    /\ ReauthShown
    /\ call' = [c \in Calls |-> NoCall]
    /\ dialog' = Closed
    /\ fresh' = TRUE
    /\ entered' = [c \in Calls |-> {}]
    /\ effect' = [c \in Calls |-> "none"]
    /\ UNCHANGED <<account, fails>>

-----------------------------------------------------------------------------
\* The backend.

\* (Mutant: guesses are counted and never stopped.)
Limited_never == FALSE
Limited == fails >= FailLimit

\* verify_step_up: the answer to a request that carries the entry e.
Verdict(e) ==
    IF account.external THEN (IF fresh THEN "ok" ELSE "reauth_required")
    ELSE IF e = "none" THEN "stepup_required"
    ELSE IF Limited THEN "refused"
    ELSE CASE e = "wrong" -> "stepup_failed"
           [] e = "nocode" -> IF account.totp THEN "stepup_required" ELSE "ok"
           [] e = "right" -> "ok"

\* Failed entries count like failed logins, a confirmed one clears them.
FailsAfter(e, verdict) ==
    IF account.external THEN fails
    ELSE CASE verdict = "stepup_failed" -> fails + 1
           [] verdict = "ok" -> 0
           [] OTHER -> fails

\* What a handled call did, seen from outside.
EffectOf(c, needed) ==
    CASE effect[c] # "none" -> "twice"
      [] effect[c] = "none" /\ ~needed -> "free"
      [] effect[c] = "none" /\ needed ->
            IF account.external \/ call[c].creds \in entered[c]
            THEN "confirmed" ELSE "unconfirmed"

Answered(c, answer) ==
    [call EXCEPT ![c].phase = "answered", ![c].answer = answer]

\* The handler checks its input first, asks for the confirmation only if the
\* change is sensitive, and then carries it out.
HandleCall(c, needed, valid) ==
    LET e == call[c].creds
        verdict == IF needed THEN Verdict(e) ELSE "ok"
        answer == IF valid THEN verdict ELSE "refused"
    IN /\ call[c].phase = "sent"
       /\ call' = Answered(c, answer)
       /\ fails' = IF valid /\ needed THEN FailsAfter(e, verdict) ELSE fails
       /\ effect' = IF answer = "ok"
                     THEN [effect EXCEPT ![c] = EffectOf(c, needed)] ELSE effect
       /\ UNCHANGED <<account, fresh, dialog, entered>>

\* Ten minutes pass since the sign-in of an external account.
SessionAges ==
    /\ fresh /\ account.external
    /\ fresh' = FALSE
    /\ UNCHANGED <<account, fails, dialog, call, entered, effect>>

\* The window of the login counter passes.
LimiterExpires ==
    /\ fails > 0
    /\ fails' = 0
    /\ UNCHANGED <<account, fresh, dialog, call, entered, effect>>

-----------------------------------------------------------------------------
StepUpNext ==
    \/ \E c \in Calls :
         \/ \E p \in BOOLEAN : StartCall(c, p)
         \/ \E needed, valid \in BOOLEAN : HandleCall(c, needed, valid)
         \/ DeliverAnswer(c)
         \/ LoseCall(c)
    \/ \E e \in Entries : Submit(e)
    \/ Cancel
    \/ Reauth
    \/ SessionAges
    \/ LimiterExpires

StepUpAnswer == (\E e \in Entries : Submit(e)) \/ Cancel \/ Reauth

\* A request that was sent is handled and its answer delivered, and a user in
\* front of an open dialog does something with it sooner or later.
StepUpFairness ==
    /\ \A c \in Calls : WF_stepVars(\E n, v \in BOOLEAN : HandleCall(c, n, v))
    /\ \A c \in Calls : WF_stepVars(DeliverAnswer(c))
    /\ WF_stepVars(StepUpAnswer)

StepUpSpec == StepUpInit /\ [][StepUpNext]_stepVars /\ StepUpFairness

-----------------------------------------------------------------------------
\* Nobody waits behind a closed dialog: while a call of withStepUp waits for
\* an entry, the shared dialog is open, whatever the other calls and their
\* answers did to it meanwhile.
WaitersAreAsked == Waiters # {} => dialog.open

\* What the page is told is what happened: a call that returned was carried
\* out, and one that the user cancelled, or that ended in the request for a
\* new sign-in, was not, however often it was repeated before.
OutcomeIsTrue ==
    \A c \in Calls :
      /\ call[c].outcome = "ok" => effect[c] # "none"
      /\ call[c].outcome \in {"aborted", "handled"} => effect[c] = "none"

\* A protected action is carried out at most once per call, and a sensitive
\* one only with an entry the user made while this very call was waiting (or
\* with a fresh sign-in): an entry is never kept for the next action.
EffectsAreConfirmed ==
    \A c \in Calls : effect[c] \notin {"unconfirmed", "twice"}

\* Every protected call ends: no page stays busy for ever.
CallsEnd ==
    \A c \in Calls : call[c].phase # "idle" ~> call[c].phase = "idle"

=============================================================================
