----------------------------- MODULE StepUpProofs -----------------------------
(***************************************************************************)
(* Theorems about StepUp, for any number of calls, attempts and failed     *)
(* logins.                                                                 *)
(***************************************************************************)
EXTENDS StepUp, TLAPS

USE StepUpAssumption

(* What holds of one call k, the entries made while it waited, and what the *)
(* backend carried out for it: a repeated question has an attempt left;     *)
(* before its answer a call has no outcome and no effect, with its answer   *)
(* the effect the answer tells; what it carries was entered for it.         *)

CallIsSound(k, made, done) ==
    /\ k.phase = "asking" /\ ~k.first => k.attempt < MaxAttempts
    /\ k.phase # "idle" => k.outcome = "none"
    /\ k.phase \in {"asking", "sent"} => done = "none"
    /\ k.phase = "answered" => (k.answer = "ok" <=> done # "none")
    /\ k.creds # "none" => k.creds \in made
    /\ k.outcome = "ok" => done # "none"
    /\ k.outcome \in {"aborted", "handled"} => done = "none"
    /\ done \notin {"unconfirmed", "twice"}

CallsAreSound == \A c \in Calls : CallIsSound(call[c], entered[c], effect[c])

StepUpInv == StepUpTypeOK /\ WaitersAreAsked /\ CallsAreSound

USE DEF Entries, Codes, CallAnswers, Outcomes, Effects

-----------------------------------------------------------------------------
(* What each operator makes of a call.                                      *)

LEMMA NoCallSound ==
    NoCall \in Call /\ NoCall.phase = "idle" /\ CallIsSound(NoCall, {}, "none")
BY DEF NoCall, Call, CallIsSound

LEMMA AskedFirstSound == AskedFirst \in Call /\ CallIsSound(AskedFirst, {}, "none")
<1>1. NoCall \in Call /\ NoCall.creds = "none" /\ NoCall.outcome = "none"
      BY DEF NoCall, Call
<1> QED BY <1>1 DEF AskedFirst, Call, CallIsSound

LEMMA SentAtOnceSound ==
    /\ SentAtOnce \in Call /\ SentAtOnce.phase = "sent"
    /\ CallIsSound(SentAtOnce, {}, "none")
<1>1. NoCall \in Call /\ NoCall.creds = "none" /\ NoCall.outcome = "none"
      BY DEF NoCall, Call
<1> QED BY <1>1 DEF SentAtOnce, Call, CallIsSound

LEMMA EndedSound ==
    ASSUME NEW k \in Call, NEW made, NEW done, NEW o \in {"ok", "failed", "handled", "aborted"},
           CallIsSound(k, made, done),
           o = "ok" => done # "none",
           o \in {"aborted", "handled"} => done = "none"
    PROVE  LET ended == [k EXCEPT !.phase = "idle", !.outcome = o]
           IN ended \in Call /\ ended.phase = "idle" /\ CallIsSound(ended, made, done)
BY DEF Call, CallIsSound

LEMMA AskingSound ==
    ASSUME NEW k \in Call, NEW made, NEW done, CallIsSound(k, made, done),
           k.phase # "idle", done = "none", k.attempt < MaxAttempts
    PROVE  LET asking == [k EXCEPT !.phase = "asking", !.answer = "none"]
           IN asking \in Call /\ CallIsSound(asking, made, done)
BY DEF Call, CallIsSound

LEMMA AnsweredSound ==
    ASSUME NEW k \in Call, NEW made, NEW done \in Effects, CallIsSound(k, made, "none"),
           k.phase = "sent", NEW a \in CallAnswers,
           a = "ok" <=> done # "none", done \notin {"unconfirmed", "twice"}
    PROVE  LET answered == [k EXCEPT !.phase = "answered", !.answer = a]
           IN /\ answered \in Call /\ answered.phase # "asking"
              /\ CallIsSound(answered, made, done)
BY DEF Call, CallIsSound

LEMMA ResumedSound ==
    ASSUME NEW k \in Call, NEW made, NEW done, CallIsSound(k, made, done),
           k.phase = "asking", NEW e \in Entries
    PROVE  LET resumed == [k EXCEPT !.phase = "sent", !.creds = e, !.first = FALSE,
                                    !.attempt = IF k.first THEN 0 ELSE @ + 1]
           IN /\ resumed \in Call /\ resumed.phase = "sent"
              /\ CallIsSound(resumed, made \cup {e}, done)
<1> DEFINE n == IF k.first THEN 0 ELSE k.attempt + 1
           r == [k EXCEPT !.phase = "sent", !.creds = e, !.first = FALSE, !.attempt = n]
<1>1. n \in 0..MaxAttempts
      BY DEF Call, CallIsSound
<1> HIDE DEF n
<1>2. r \in Call /\ r.phase = "sent" /\ r.creds = e /\ r.outcome = k.outcome
      BY <1>1 DEF Call
<1>3. CallIsSound(r, made \cup {e}, done)
      BY <1>2 DEF CallIsSound
<1> QED BY <1>2, <1>3 DEF n

LEMMA VerdictSound ==
    ASSUME NEW e \in Entries \cup {"none"}, account \in Account, fails \in 0..FailLimit
    PROVE  /\ Verdict(e) \in CallAnswers
           /\ FailsAfter(e, Verdict(e)) \in 0..FailLimit
           /\ Verdict(e) = "ok" => account.external \/ e # "none"
BY DEF Verdict, FailsAfter, Limited, Account

(* Where one call changes and the dialog stays open for those who wait.     *)

LEMMA OneCallChanges ==
    ASSUME StepUpInv, NEW c \in Calls,
           call' \in [Calls -> Call], entered' \in [Calls -> SUBSET Entries],
           effect' \in [Calls -> Effects],
           \A d \in Calls \ {c} : /\ call'[d] = call[d] /\ entered'[d] = entered[d]
                                  /\ effect'[d] = effect[d],
           CallIsSound(call'[c], entered'[c], effect'[c]),
           call'[c].phase = "asking" => dialog'.open,
           dialog.open => dialog'.open,
           dialog' \in [open : BOOLEAN, code : Codes],
           account' \in Account, fresh' \in BOOLEAN, fails' \in 0..FailLimit
    PROVE  StepUpInv'
<1>1. StepUpTypeOK'
      BY DEF StepUpTypeOK
<1>2. WaitersAreAsked'
  <2>1. CASE call'[c].phase = "asking"
        BY <2>1 DEF WaitersAreAsked
  <2>2. CASE call'[c].phase # "asking"
    <3>1. Waiters' \subseteq Waiters
          BY <2>2 DEF Waiters
    <3> QED BY <3>1 DEF StepUpInv, WaitersAreAsked
  <2> QED BY <2>1, <2>2
<1>3. CallsAreSound'
      BY DEF StepUpInv, CallsAreSound
<1> QED BY <1>1, <1>2, <1>3 DEF StepUpInv

-----------------------------------------------------------------------------
(* One lemma per action.                                                     *)

LEMMA CallTyped ==
    ASSUME StepUpInv, NEW c \in Calls
    PROVE  /\ call[c] \in Call /\ entered[c] \in SUBSET Entries /\ effect[c] \in Effects
           /\ CallIsSound(call[c], entered[c], effect[c])
BY DEF StepUpInv, StepUpTypeOK, CallsAreSound

LEMMA Typed ==
    ASSUME StepUpInv
    PROVE  /\ call \in [Calls -> Call] /\ entered \in [Calls -> SUBSET Entries]
           /\ effect \in [Calls -> Effects]
           /\ account \in Account /\ fresh \in BOOLEAN /\ fails \in 0..FailLimit
           /\ dialog \in [open : BOOLEAN, code : Codes]
BY DEF StepUpInv, StepUpTypeOK

LEMMA OpenedType ==
    ASSUME NEW code \in Codes
    PROVE  Opened(code) \in [open : BOOLEAN, code : Codes] /\ Opened(code).open
BY DEF Opened

LEMMA StartCallInv ==
    ASSUME StepUpInv, NEW c \in Calls, NEW p \in BOOLEAN, StartCall(c, p)
    PROVE  StepUpInv'
<1> DEFINE k == IF p THEN AskedFirst ELSE SentAtOnce
<1>1. /\ k \in Call /\ CallIsSound(k, {}, "none")
      /\ ~p => k.phase = "sent"
      BY AskedFirstSound, SentAtOnceSound
<1>2. /\ call' = [call EXCEPT ![c] = k]
      /\ dialog' = IF p THEN Opened("stepup_required") ELSE dialog
      /\ entered' = [entered EXCEPT ![c] = {}]
      /\ effect' = [effect EXCEPT ![c] = "none"]
      /\ UNCHANGED <<account, fresh, fails>>
      BY DEF StartCall
<1> HIDE DEF k
<1>3. /\ call' \in [Calls -> Call] /\ call'[c] = k
      /\ \A d \in Calls \ {c} : call'[d] = call[d]
      BY <1>1, <1>2, Typed
<1>4. /\ entered' \in [Calls -> SUBSET Entries] /\ entered'[c] = {}
      /\ effect' \in [Calls -> Effects] /\ effect'[c] = "none"
      /\ \A d \in Calls \ {c} : entered'[d] = entered[d] /\ effect'[d] = effect[d]
      BY <1>2, Typed
<1>5. /\ dialog' \in [open : BOOLEAN, code : Codes] /\ (p \/ dialog.open => dialog'.open)
      BY <1>2, OpenedType, Typed
<1>6. account' \in Account /\ fresh' \in BOOLEAN /\ fails' \in 0..FailLimit
      BY <1>2, Typed
<1> QED BY <1>1, <1>3, <1>4, <1>5, <1>6, OneCallChanges

LEMMA HandleCallInv ==
    ASSUME StepUpInv, NEW c \in Calls, NEW needed \in BOOLEAN, NEW valid \in BOOLEAN,
           HandleCall(c, needed, valid)
    PROVE  StepUpInv'
<1> DEFINE e == call[c].creds
           verdict == IF needed THEN Verdict(e) ELSE "ok"
           answer == IF valid THEN verdict ELSE "refused"
           done == IF answer = "ok" THEN EffectOf(c, needed) ELSE "none"
           answered == [call[c] EXCEPT !.phase = "answered", !.answer = answer]
<1>1. /\ call[c].phase = "sent"
      /\ call' = [call EXCEPT ![c].phase = "answered", ![c].answer = answer]
      /\ fails' = IF valid /\ needed THEN FailsAfter(e, verdict) ELSE fails
      /\ effect' = IF answer = "ok" THEN [effect EXCEPT ![c] = EffectOf(c, needed)] ELSE effect
      /\ UNCHANGED <<account, fresh, dialog, entered>>
      BY DEF HandleCall, Answered
<1>2. /\ e \in Entries \cup {"none"} /\ effect[c] = "none"
      /\ e # "none" => e \in entered[c]
      BY <1>1, CallTyped DEF Call, CallIsSound
<1>3. /\ answer \in CallAnswers
      /\ answer = "ok" /\ needed => account.external \/ e # "none"
      BY <1>2, VerdictSound, Typed
<1>4. fails' \in 0..FailLimit
      BY <1>1, <1>2, VerdictSound, Typed
<1>5. answer = "ok" => EffectOf(c, needed) \in {"free", "confirmed"}
      BY <1>2, <1>3 DEF EffectOf
<1> HIDE DEF answer, verdict, e
<1>6. /\ done \in Effects /\ (answer = "ok" <=> done # "none")
      /\ done \notin {"unconfirmed", "twice"}
      BY <1>5
<1>7. /\ effect' \in [Calls -> Effects] /\ effect'[c] = done
      /\ \A d \in Calls \ {c} : effect'[d] = effect[d]
      BY <1>1, <1>2, <1>5, Typed
<1> HIDE DEF done
<1>8. /\ answered \in Call /\ answered.phase # "asking"
      /\ CallIsSound(answered, entered[c], done)
  <2>1. /\ call[c] \in Call /\ call[c].phase = "sent"
        /\ CallIsSound(call[c], entered[c], "none")
        BY <1>1, <1>2, CallTyped
  <2> QED BY <1>3, <1>6, <2>1, AnsweredSound
<1>9. call' = [call EXCEPT ![c] = answered]
      BY <1>1
<1> HIDE DEF answered
<1>10. /\ call' \in [Calls -> Call] /\ call'[c] = answered
       /\ \A d \in Calls \ {c} : call'[d] = call[d]
       BY <1>8, <1>9, Typed
<1>11. /\ entered' = entered /\ dialog' = dialog
       /\ entered' \in [Calls -> SUBSET Entries]
       /\ account' \in Account /\ fresh' \in BOOLEAN
       /\ dialog' \in [open : BOOLEAN, code : Codes]
       BY <1>1, Typed
<1> QED BY <1>4, <1>7, <1>8, <1>10, <1>11, OneCallChanges

LEMMA CallEnds ==
    ASSUME StepUpInv, NEW c \in Calls, NEW o \in {"ok", "failed", "handled"},
           o = "ok" => effect[c] # "none", o = "handled" => effect[c] = "none",
           call' = Ended(c, o), UNCHANGED <<account, fresh, fails, entered, effect>>,
           dialog' \in [open : BOOLEAN, code : Codes], dialog.open => dialog'.open
    PROVE  StepUpInv'
<1> DEFINE ended == [call[c] EXCEPT !.phase = "idle", !.outcome = o]
<1>1. ended \in Call /\ ended.phase = "idle" /\ CallIsSound(ended, entered[c], effect[c])
  <2>1. call[c] \in Call /\ CallIsSound(call[c], entered[c], effect[c])
        BY CallTyped
  <2> QED BY <2>1, EndedSound
<1>2. call' = [call EXCEPT ![c] = ended]
      BY DEF Ended
<1> HIDE DEF ended
<1>3. /\ call' \in [Calls -> Call] /\ call'[c] = ended
      /\ \A d \in Calls \ {c} : call'[d] = call[d]
      BY <1>1, <1>2, Typed
<1>4. /\ entered' \in [Calls -> SUBSET Entries] /\ effect' \in [Calls -> Effects]
      /\ account' \in Account /\ fresh' \in BOOLEAN /\ fails' \in 0..FailLimit
      /\ entered' = entered /\ effect' = effect
      BY Typed
<1> QED BY <1>1, <1>3, <1>4, OneCallChanges

LEMMA DeliverAnswerInv ==
    ASSUME StepUpInv, NEW c \in Calls, DeliverAnswer(c)
    PROVE  StepUpInv'
<1>1. /\ call[c].phase = "answered"
      /\ UNCHANGED <<account, fresh, fails, entered, effect>>
      BY DEF DeliverAnswer
<1>2. call[c].answer = "ok" <=> effect[c] # "none"
      BY <1>1, CallTyped DEF CallIsSound
<1>3. CASE call[c].answer = "ok" /\ call' = Ended(c, "ok") /\ UNCHANGED dialog
      BY <1>1, <1>2, <1>3, Typed, CallEnds
<1>4. CASE call[c].answer = "refused" /\ call' = Ended(c, "failed") /\ UNCHANGED dialog
      BY <1>1, <1>2, <1>4, Typed, CallEnds
<1>5. CASE /\ call[c].answer = "reauth_required" /\ call' = Ended(c, "handled")
           /\ dialog' = Opened("reauth_required")
      BY <1>1, <1>2, <1>5, OpenedType, CallEnds
<1>6. CASE /\ call[c].answer \in {"stepup_required", "stepup_failed"}
           /\ call[c].attempt < MaxAttempts
           /\ call' = Asking(c) /\ dialog' = Opened("stepup_required")
  <2> DEFINE asking == [call[c] EXCEPT !.phase = "asking", !.answer = "none"]
  <2>1. asking \in Call /\ CallIsSound(asking, entered[c], effect[c])
        BY <1>1, <1>2, <1>6, CallTyped, AskingSound
  <2>2. call' = [call EXCEPT ![c] = asking]
        BY <1>6 DEF Asking
  <2> HIDE DEF asking
  <2>3. /\ call' \in [Calls -> Call] /\ call'[c] = asking
        /\ \A d \in Calls \ {c} : call'[d] = call[d]
        BY <2>1, <2>2, Typed
  <2>4. dialog' \in [open : BOOLEAN, code : Codes] /\ dialog'.open
        BY <1>6, OpenedType
  <2>5. /\ entered' \in [Calls -> SUBSET Entries] /\ effect' \in [Calls -> Effects]
        /\ account' \in Account /\ fresh' \in BOOLEAN /\ fails' \in 0..FailLimit
        /\ entered' = entered /\ effect' = effect
        BY <1>1, Typed
  <2> QED BY <2>1, <2>3, <2>4, <2>5, OneCallChanges
<1>7. CASE /\ call[c].answer \in {"stepup_required", "stepup_failed"}
           /\ call' = Ended(c, "failed")
           /\ dialog' = IF call[c].answer = "stepup_required"
                        THEN Opened("stepup_required") ELSE dialog
  <2>1. dialog' \in [open : BOOLEAN, code : Codes] /\ (dialog.open => dialog'.open)
        BY <1>7, OpenedType, Typed
  <2> QED BY <1>1, <1>7, <2>1, CallEnds
<1> QED BY <1>3, <1>4, <1>5, <1>6, <1>7 DEF DeliverAnswer

LEMMA LoseCallInv ==
    ASSUME StepUpInv, NEW c \in Calls, LoseCall(c)
    PROVE  StepUpInv'
BY Typed, CallEnds DEF LoseCall

LEMMA SubmitInv ==
    ASSUME StepUpInv, NEW e \in Entries, Submit(e)
    PROVE  StepUpInv'
<1>1. /\ call' = Resumed(e) /\ dialog' = Closed
      /\ entered' = [c \in Calls |-> IF c \in Waiters THEN entered[c] \cup {e} ELSE entered[c]]
      /\ UNCHANGED <<account, fresh, fails, effect>>
      BY DEF Submit
<1>2. ASSUME NEW c \in Calls
      PROVE  /\ call'[c] \in Call /\ entered'[c] \in SUBSET Entries
             /\ call'[c].phase # "asking"
             /\ CallIsSound(call'[c], entered'[c], effect'[c])
  <2>1. CASE c \in Waiters
    <3> DEFINE resumed == [call[c] EXCEPT !.phase = "sent", !.creds = e, !.first = FALSE,
                                  !.attempt = IF call[c].first THEN 0 ELSE @ + 1]
    <3>1. call'[c] = resumed /\ entered'[c] = entered[c] \cup {e} /\ effect'[c] = effect[c]
          BY <1>1, <2>1 DEF Resumed
    <3>2. /\ resumed \in Call /\ resumed.phase = "sent"
          /\ CallIsSound(resumed, entered[c] \cup {e}, effect[c])
      <4>1. /\ call[c] \in Call /\ call[c].phase = "asking"
            /\ CallIsSound(call[c], entered[c], effect[c])
            BY <2>1, CallTyped DEF Waiters
      <4> QED BY <4>1, ResumedSound
    <3> HIDE DEF resumed
    <3> QED BY <3>1, <3>2, CallTyped
  <2>2. CASE c \notin Waiters
        BY <1>1, <2>2, CallTyped DEF Resumed, Waiters
  <2> QED BY <2>1, <2>2
<1>3. call' \in [Calls -> Call]
      BY <1>1, <1>2 DEF Resumed
<1>4. entered' \in [Calls -> SUBSET Entries]
      BY <1>1, <1>2
<1>5. StepUpTypeOK'
      BY <1>1, <1>3, <1>4 DEF StepUpInv, StepUpTypeOK, Closed
<1>6. WaitersAreAsked' /\ CallsAreSound'
      BY <1>2 DEF WaitersAreAsked, Waiters, CallsAreSound
<1> QED BY <1>5, <1>6 DEF StepUpInv

LEMMA CancelInv ==
    ASSUME StepUpInv, Cancel
    PROVE  StepUpInv'
<1>1. /\ call' = Aborted /\ dialog' = Closed
      /\ UNCHANGED <<account, fresh, fails, entered, effect>>
      BY DEF Cancel
<1>2. ASSUME NEW c \in Calls
      PROVE  /\ call'[c] \in Call /\ call'[c].phase # "asking"
             /\ CallIsSound(call'[c], entered[c], effect[c])
  <2>1. CASE c \in Waiters
    <3> DEFINE aborted == [call[c] EXCEPT !.phase = "idle", !.outcome = "aborted"]
    <3>1. call'[c] = aborted
          BY <1>1, <2>1 DEF Aborted
    <3>2. /\ call[c] \in Call /\ CallIsSound(call[c], entered[c], effect[c])
          /\ effect[c] = "none"
          BY <2>1, CallTyped DEF Waiters, CallIsSound
    <3>3. aborted \in Call /\ aborted.phase = "idle" /\ CallIsSound(aborted, entered[c], effect[c])
          BY <3>2, EndedSound
    <3> HIDE DEF aborted
    <3> QED BY <3>1, <3>3
  <2>2. CASE c \notin Waiters
        BY <1>1, <2>2, CallTyped DEF Aborted, Waiters
  <2> QED BY <2>1, <2>2
<1>3. call' \in [Calls -> Call]
      BY <1>1, <1>2 DEF Aborted
<1>4. StepUpTypeOK'
      BY <1>1, <1>3 DEF StepUpInv, StepUpTypeOK, Closed
<1>5. WaitersAreAsked' /\ CallsAreSound'
      BY <1>1, <1>2 DEF WaitersAreAsked, Waiters, CallsAreSound
<1> QED BY <1>4, <1>5 DEF StepUpInv

LEMMA AllIdleInv ==
    ASSUME call = [c \in Calls |-> NoCall], entered = [c \in Calls |-> {}],
           effect = [c \in Calls |-> "none"], dialog = Closed,
           account \in Account, fresh \in BOOLEAN, fails \in 0..FailLimit
    PROVE  StepUpInv
<1>1. \A c \in Calls : call[c] = NoCall /\ entered[c] = {} /\ effect[c] = "none"
      OBVIOUS
<1>2. StepUpTypeOK
      BY NoCallSound DEF StepUpTypeOK, Closed
<1>3. WaitersAreAsked
      BY <1>1, NoCallSound DEF WaitersAreAsked, Waiters
<1>4. CallsAreSound
      BY <1>1, NoCallSound DEF CallsAreSound
<1> QED BY <1>2, <1>3, <1>4 DEF StepUpInv

LEMMA ClockInv ==
    ASSUME StepUpInv, fresh' \in BOOLEAN, fails' \in 0..FailLimit,
           UNCHANGED <<account, dialog, call, entered, effect>>
    PROVE  StepUpInv'
BY DEF StepUpInv, StepUpTypeOK, WaitersAreAsked, Waiters, CallsAreSound

-----------------------------------------------------------------------------
LEMMA StepUpInitInv == StepUpInit => StepUpInv
<1>1. StepUpInit => fails \in 0..FailLimit /\ fresh \in BOOLEAN
      BY DEF StepUpInit
<1> QED BY <1>1, AllIdleInv DEF StepUpInit

LEMMA StepUpNextInv == StepUpInv /\ [StepUpNext]_stepVars => StepUpInv'
<1> SUFFICES ASSUME StepUpInv, [StepUpNext]_stepVars
             PROVE  StepUpInv'
    OBVIOUS
<1>1. ASSUME NEW c \in Calls, NEW p \in BOOLEAN, StartCall(c, p)
      PROVE  StepUpInv'
      BY <1>1, StartCallInv
<1>2. ASSUME NEW c \in Calls, NEW needed \in BOOLEAN, NEW valid \in BOOLEAN,
             HandleCall(c, needed, valid)
      PROVE  StepUpInv'
      BY <1>2, HandleCallInv
<1>3. ASSUME NEW c \in Calls, DeliverAnswer(c) \/ LoseCall(c)
      PROVE  StepUpInv'
      BY <1>3, DeliverAnswerInv, LoseCallInv
<1>4. ASSUME NEW e \in Entries, Submit(e)
      PROVE  StepUpInv'
      BY <1>4, SubmitInv
<1>5. CASE Cancel
      BY <1>5, CancelInv
<1>6. CASE Reauth
  <2>1. StepUpTypeOK
        BY DEF StepUpInv
  <2>2. /\ call' = [c \in Calls |-> NoCall] /\ entered' = [c \in Calls |-> {}]
        /\ effect' = [c \in Calls |-> "none"] /\ dialog' = Closed
        /\ account' \in Account /\ fresh' \in BOOLEAN /\ fails' \in 0..FailLimit
        BY <1>6, <2>1 DEF Reauth, StepUpTypeOK
  <2>3. StepUpTypeOK'
        BY <2>2, NoCallSound DEF StepUpTypeOK, Closed
  <2>4. WaitersAreAsked' /\ CallsAreSound'
        BY <2>2, NoCallSound DEF WaitersAreAsked, Waiters, CallsAreSound
  <2> QED BY <2>3, <2>4 DEF StepUpInv
<1>7. CASE SessionAges
      BY <1>7, ClockInv DEF SessionAges, StepUpInv, StepUpTypeOK
<1>8. CASE LimiterExpires
      BY <1>8, ClockInv DEF LimiterExpires, StepUpInv, StepUpTypeOK
<1>9. CASE UNCHANGED stepVars
      BY <1>9, ClockInv DEF stepVars, StepUpInv, StepUpTypeOK
<1> QED BY <1>1, <1>2, <1>3, <1>4, <1>5, <1>6, <1>7, <1>8, <1>9 DEF StepUpNext

LEMMA StepUpInvariant == StepUpSpec => []StepUpInv
BY StepUpInitInv, StepUpNextInv, PTL DEF StepUpSpec

(* Type correctness of the store, the dialog, the calls and the backend's   *)
(* counters.                                                                *)

THEOREM StepUpTypeCorrect == StepUpSpec => []StepUpTypeOK
BY StepUpInvariant, PTL DEF StepUpInv

(* Nobody waits behind a closed dialog (stepUpStore.js): however many calls *)
(* share it, and whatever is answered, cancelled or lost meanwhile.         *)

THEOREM NobodyWaitsUnasked == StepUpSpec => []WaitersAreAsked
BY StepUpInvariant, PTL DEF StepUpInv

(* What withStepUp returns is what the backend did for the call.            *)

THEOREM OutcomesAreTrue == StepUpSpec => []OutcomeIsTrue
<1>1. StepUpInv => OutcomeIsTrue
      BY DEF StepUpInv, CallsAreSound, CallIsSound, OutcomeIsTrue
<1> QED BY <1>1, StepUpInvariant, PTL

(* A protected action runs at most once per call, and a sensitive one only  *)
(* with an entry made for this call or a fresh sign-in.                     *)

THEOREM NothingUnconfirmed == StepUpSpec => []EffectsAreConfirmed
<1>1. StepUpInv => EffectsAreConfirmed
      BY DEF StepUpInv, CallsAreSound, CallIsSound, EffectsAreConfirmed
<1> QED BY <1>1, StepUpInvariant, PTL

=============================================================================
