----------------------------- MODULE FanoutProofs -----------------------------
(***************************************************************************)
(* Theorems about Fanout, for any number of servers, databases, values and *)
(* concurrent edits.                                                       *)
(***************************************************************************)
EXTENDS Fanout, TLAPS

USE BackendAssumption, ServersAssumption, OperationsAssumption

(* What an edit record becomes keeps its operation and its primary.         *)

LEMMA OperationType ==
    ASSUME NEW op \in Operations
    PROVE  /\ op.kind \in Kinds /\ op.old \in Values /\ op.new \in Values
           /\ op.require_primary \in BOOLEAN
BY DEF Operation

LEMMA NoEditType ==
    ASSUME NEW op \in Operations, NEW s \in Servers
    PROVE  /\ NoEdit(op, s) \in Edit
           /\ NoEdit(op, s).op = op /\ NoEdit(op, s).primary = s
           /\ NoEdit(op, s).phase = "idle"
BY DEF NoEdit, Edit, Phases

LEMMA EndedType ==
    ASSUME NEW x \in Edit, NEW phase \in {"done", "dead"}
    PROVE  /\ Ended(x, phase) \in Edit
           /\ Ended(x, phase).op = x.op /\ Ended(x, phase).primary = x.primary
           /\ Ended(x, phase).phase = phase
BY DEF Ended, NoEdit, Edit, Phases

LEMMA ReturnedType ==
    ASSUME NEW x \in Edit
    PROVE  /\ Returned(x) \in Edit
           /\ Returned(x).op = x.op /\ Returned(x).primary = x.primary
           /\ Returned(x).at = x.at /\ Returned(x).phase = "next"
BY DEF Returned, Edit, Phases

LEMMA ReadFoundType ==
    ASSUME NEW x \in Edit, NEW rrset \in SUBSET Values
    PROVE  /\ ReadFound(x, rrset) \in Edit
           /\ ReadFound(x, rrset).op = x.op /\ ReadFound(x, rrset).primary = x.primary
           /\ ReadFound(x, rrset).at = x.at /\ ReadFound(x, rrset).phase = "patch"
BY DEF ReadFound, Edit, Phases

LEMMA AdvancedType ==
    ASSUME NEW x \in Edit, NEW s \in Servers
    PROVE  /\ Advanced(x, s) \in Edit
           /\ Advanced(x, s).op = x.op /\ Advanced(x, s).primary = x.primary
           /\ Advanced(x, s).at = s
           /\ Advanced(x, s).phase = IF ModeA(x.op) THEN "patch" ELSE "read"
BY DEF Advanced, Edit, Phases

(* A payload satisfies the edit, and takes away only what the edit touches.  *)

LEMMA PayloadType ==
    ASSUME NEW op \in Operations, NEW rrset \in SUBSET Values
    PROVE  Payload(op, rrset) \in SUBSET Values
BY OperationType DEF Payload, Kinds

LEMMA PayloadIsWanted ==
    ASSUME NEW op \in Operations, NEW rrset
    PROVE  Wanted(op, Payload(op, rrset))
BY OperationType DEF Payload, Wanted, Kinds

LEMMA PayloadKeeps ==
    ASSUME NEW op \in Operations, NEW rrset \in SUBSET Values
    PROVE  rrset \ Touches(op) \subseteq Payload(op, rrset)
BY OperationType DEF Payload, Touches, Kinds

LEMMA UnchangedIsWanted ==
    ASSUME NEW op \in Operations, NEW rrset, Unchanged(op, rrset)
    PROVE  Wanted(op, rrset)
BY DEF Unchanged, Wanted

LEMMA NotesAreBoolean == ASSUME NEW op, NEW rrset PROVE Wanted(op, rrset) \in BOOLEAN
BY DEF Wanted

LEMMA StartedType ==
    ASSUME NEW op \in Operations, NEW s \in Servers, NEW known \in BOOLEAN,
           NEW targets \in SUBSET Servers, NEW before \in SUBSET Values
    PROVE  /\ Started(op, s, targets, known, before) \in Edit
           /\ Started(op, s, targets, known, before).op = op
           /\ Started(op, s, targets, known, before).primary = s
           /\ Started(op, s, targets, known, before).phase = "next"
BY DEF Started, NoEdit, Edit, Phases

------------------------------------------------------------------------------
(* Type correctness                                                         *)

LEMMA InitType == Init => TypeOK
<1> SUFFICES ASSUME Init PROVE TypeOK  OBVIOUS
<1> DEFINE op0 == CHOOSE op \in Operations : TRUE
           s0  == CHOOSE s \in Servers : TRUE
<1>1. op0 \in Operations /\ s0 \in Servers  OBVIOUS
<1>2. edit = [e \in Edits |-> NoEdit(op0, s0)]  BY DEF Init
<1> HIDE DEF op0, s0
<1>3. edit \in [Edits -> Edit]  BY <1>1, <1>2, NoEditType
<1> QED  BY <1>3 DEF Init, TypeOK, NoPatch, Patch, Results, Note

\* The three ways an action changes the tables of edits, PATCHes and reports.
LEMMA TableTypes ==
    ASSUME TypeOK, NEW e \in Edits
    PROVE  /\ \A x \in Edit : Becomes(e, x) => edit' \in [Edits -> Edit]
           /\ \A s \in Servers, rrset \in SUBSET Values :
                 Send(e, s, rrset) => wire' \in [Edits -> [Servers -> Patch]]
           /\ \A s \in Servers, state \in {"none", "waiting", "applied", "dropped"} :
                 wire' = [wire EXCEPT ![e][s].state = state] => wire' \in [Edits -> [Servers -> Patch]]
           /\ \A r \in Results : Report(e, r) => result' \in [Edits -> [Servers -> Results]]
           /\ edit[e] \in Edit /\ edit[e].op \in Operations /\ edit[e].primary \in Servers
           /\ edit[e].at \in Servers /\ edit[e].todo \in SUBSET Servers
           /\ At(e) \in Servers /\ Source(e) \in SUBSET Values
<1>1. edit[e] \in Edit  BY DEF TypeOK
<1>2. /\ edit[e].op \in Operations /\ edit[e].primary \in Servers
      /\ edit[e].at \in Servers /\ edit[e].todo \in SUBSET Servers
  BY <1>1 DEF Edit
<1>3. At(e) \in Servers /\ Source(e) \in SUBSET Values  BY <1>2 DEF At, Source, TypeOK
<1>4. ASSUME NEW x \in Edit, Becomes(e, x) PROVE edit' \in [Edits -> Edit]
  BY <1>4 DEF Becomes, TypeOK
<1>5. ASSUME NEW s \in Servers, NEW rrset \in SUBSET Values, Send(e, s, rrset)
      PROVE  wire' \in [Edits -> [Servers -> Patch]]
  BY <1>5 DEF Send, TypeOK, Patch
<1>6. ASSUME NEW s \in Servers, NEW state \in {"none", "waiting", "applied", "dropped"},
             wire' = [wire EXCEPT ![e][s].state = state]
      PROVE  wire' \in [Edits -> [Servers -> Patch]]
  <2>1. wire[e][s] \in Patch  BY DEF TypeOK
  <2>2. [wire[e][s] EXCEPT !.state = state] \in Patch  BY <2>1 DEF Patch
  <2>3. wire[e] \in [Servers -> Patch] /\ wire \in [Edits -> [Servers -> Patch]]  BY DEF TypeOK
  <2>4. [wire[e] EXCEPT ![s] = [wire[e][s] EXCEPT !.state = state]] \in [Servers -> Patch]
    BY <2>2, <2>3
  <2>5. wire' = [wire EXCEPT ![e] = [wire[e] EXCEPT ![s] = [wire[e][s] EXCEPT !.state = state]]]
    BY <1>6
  <2> QED  BY <2>3, <2>4, <2>5
<1>7. ASSUME NEW r \in Results, Report(e, r) PROVE result' \in [Edits -> [Servers -> Results]]
  BY <1>3, <1>7 DEF Report, TypeOK
<1> QED  BY <1>1, <1>2, <1>3, <1>4, <1>5, <1>6, <1>7

LEMMA TypeStep == ASSUME TypeOK, [Next]_vars PROVE TypeOK'
<1>1. ASSUME NEW e \in Edits, NEW op \in Operations, NEW p \in Servers, Begin(e, op, p)
      PROVE  TypeOK'
  <2>1. edit' \in [Edits -> Edit]
    <3>1. CASE Becomes(e, Ended(NoEdit(op, p), "done"))
      <4>1. NoEdit(op, p) \in Edit  BY NoEditType
      <4>2. Ended(NoEdit(op, p), "done") \in Edit  BY <4>1, EndedType
      <4> QED  BY <3>1, <4>2, TableTypes
    <3>2. ASSUME NEW targets \in SUBSET Servers, NEW known \in BOOLEAN,
                 NEW before \in SUBSET Values, Becomes(e, Started(op, p, targets, known, before))
          PROVE  edit' \in [Edits -> Edit]
      BY <3>2, StartedType, TableTypes
    <3>3. \A known \in BOOLEAN : (IF known THEN store[Backend[p]] ELSE {}) \in SUBSET Values
      BY DEF TypeOK
    <3>4. CASE \E targets \in SUBSET Servers : \E known \in BOOLEAN :
                  Becomes(e, Started(op, p, targets, known,
                                     IF known THEN store[Backend[p]] ELSE {}))
      BY <3>2, <3>3, <3>4
    <3> QED  BY <1>1, <3>1, <3>4 DEF Begin
  <2>2. Quiet \in BOOLEAN /\ InSync \in BOOLEAN  BY DEF Quiet, InSync
  <2>3. note' \in [Edits -> Note]  BY <1>1, <2>2, NotesAreBoolean DEF Begin, TypeOK, Note
  <2> QED  BY <1>1, <2>1, <2>3 DEF Begin, TypeOK
<1>2. ASSUME NEW e \in Edits, NEW s \in Servers, Turn(e, s) PROVE TypeOK'
  <2>1. edit' \in [Edits -> Edit]  BY <1>2, AdvancedType, TableTypes DEF Turn
  <2>2. Payload(edit[e].op, {}) \in SUBSET Values  BY PayloadType, TableTypes
  <2>3. wire' \in [Edits -> [Servers -> Patch]]  BY <1>2, <2>2, TableTypes DEF Turn, TypeOK
  <2> QED  BY <1>2, <2>1, <2>3 DEF Turn, TypeOK
<1>3. ASSUME NEW e \in Edits, NEW s \in Servers, Apply(e, s) PROVE TypeOK'
  <2>1. wire[e][s].rrset \in SUBSET Values  BY DEF TypeOK, Patch
  <2>2. store' \in [Backends -> SUBSET Values]  BY <1>3, <2>1 DEF Apply, TypeOK
  <2>3. wire' \in [Edits -> [Servers -> Patch]]  BY <1>3, TableTypes DEF Apply
  <2>4. note' \in [Edits -> Note]  BY <1>3 DEF Apply, TypeOK, Note
  <2> QED  BY <1>3, <2>2, <2>3, <2>4 DEF Apply, TypeOK
<1>4. ASSUME NEW e \in Edits, NEW s \in Servers, Drop(e, s) PROVE TypeOK'
  BY <1>4, TableTypes DEF Drop, TypeOK
<1>5. ASSUME NEW e \in Edits, End(e) PROVE TypeOK'
  <2>1. edit' \in [Edits -> Edit]  BY <1>5, EndedType, TableTypes DEF End
  <2> QED  BY <1>5, <2>1 DEF End, TypeOK
<1>6. ASSUME NEW e \in Edits, Read(e) PROVE TypeOK'
  <2>1. CASE \E status \in Results : ReadSkips(e, status)
    <3>1. edit' \in [Edits -> Edit]  BY <2>1, ReturnedType, TableTypes DEF ReadSkips
    <3>2. result' \in [Edits -> [Servers -> Results]]  BY <2>1, TableTypes DEF ReadSkips
    <3> QED  BY <1>6, <2>1, <3>1, <3>2 DEF Read, ReadSkips, TypeOK
  <2>2. CASE /\ Becomes(e, ReadFound(edit[e], Source(e)))
             /\ Send(e, At(e), Payload(edit[e].op, Source(e)))
             /\ UNCHANGED result
    <3>1. edit' \in [Edits -> Edit]  BY <2>2, ReadFoundType, TableTypes
    <3>2. wire' \in [Edits -> [Servers -> Patch]]  BY <2>2, PayloadType, TableTypes
    <3> QED  BY <1>6, <2>2, <3>1, <3>2 DEF Read, TypeOK
  <2> QED  BY <1>6, <2>1, <2>2 DEF Read, Results
<1>7. ASSUME NEW e \in Edits, ReadFails(e) PROVE TypeOK'
  <2>1. edit' \in [Edits -> Edit]  BY <1>7, ReturnedType, TableTypes DEF ReadFails, ReadSkips
  <2>2. result' \in [Edits -> [Servers -> Results]]
    BY <1>7, TableTypes DEF ReadFails, ReadSkips, Results
  <2> QED  BY <1>7, <2>1, <2>2 DEF ReadFails, ReadSkips, TypeOK
<1>8. ASSUME NEW e \in Edits, PatchSaved(e) PROVE TypeOK'
  <2>1. edit' \in [Edits -> Edit]  BY <1>8, ReturnedType, TableTypes DEF PatchSaved
  <2>2. result' \in [Edits -> [Servers -> Results]]  BY <1>8, TableTypes DEF PatchSaved, Results
  <2> QED  BY <1>8, <2>1, <2>2 DEF PatchSaved, TypeOK
<1>9. ASSUME NEW e \in Edits, PatchRejected(e) PROVE TypeOK'
  <2>1. edit' \in [Edits -> Edit]  BY <1>9, ReturnedType, TableTypes DEF PatchRejected
  <2>2. result' \in [Edits -> [Servers -> Results]]
    BY <1>9, TableTypes DEF PatchRejected, Results
  <2>3. wire' \in [Edits -> [Servers -> Patch]]  BY <1>9, TableTypes DEF PatchRejected
  <2> QED  BY <1>9, <2>1, <2>2, <2>3 DEF PatchRejected, TypeOK
<1>10. ASSUME NEW e \in Edits, PatchTimesOut(e) PROVE TypeOK'
  <2>1. [edit[e] EXCEPT !.phase = "verify"] \in Edit  BY TableTypes DEF Edit, Phases
  <2>2. edit' \in [Edits -> Edit]  BY <1>10, <2>1, ReturnedType, TableTypes DEF PatchTimesOut
  <2>3. result' \in [Edits -> [Servers -> Results]]
    BY <1>10, TableTypes DEF PatchTimesOut, Results, TypeOK
  <2> QED  BY <1>10, <2>2, <2>3 DEF PatchTimesOut, TypeOK
<1>11. ASSUME NEW e \in Edits, verify_after_transport_error(e) PROVE TypeOK'
  <2>1. edit' \in [Edits -> Edit]
    BY <1>11, ReturnedType, TableTypes DEF verify_after_transport_error
  <2>2. \A current, expected, known, before : Outcome(current, expected, known, before) \in Results
    BY DEF Outcome, Results
  <2>3. result' \in [Edits -> [Servers -> Results]]
    BY <1>11, <2>2, TableTypes DEF verify_after_transport_error, Results
  <2> QED  BY <1>11, <2>1, <2>3 DEF verify_after_transport_error, TypeOK
<1>12. ASSUME NEW e \in Edits, Abandon(e) PROVE TypeOK'
  <2>1. edit' \in [Edits -> Edit]  BY <1>12, EndedType, TableTypes DEF Abandon
  <2> QED  BY <1>12, <2>1 DEF Abandon, TypeOK
<1>13. CASE UNCHANGED vars  BY <1>13 DEF vars, TypeOK
<1> QED
  BY <1>1, <1>2, <1>3, <1>4, <1>5, <1>6, <1>7, <1>8, <1>9, <1>10, <1>11, <1>12, <1>13 DEF Next

\* Every variable has its type, whatever the edits, their operations and their order.
THEOREM FanoutTypeCorrect == Spec => []TypeOK
<1>1. Init => TypeOK  BY InitType
<1>2. TypeOK /\ [Next]_vars => TypeOK'  BY TypeStep
<1> QED  BY <1>1, <1>2, PTL DEF Spec

------------------------------------------------------------------------------
(* Values that no edit touches survive                                      *)

\* Before it begins, an edit has sent and reported nothing.
Pristine(e) ==
    edit[e].phase = "idle" => \A s \in Servers : wire[e][s].state = "none" /\ result[e][s] = "none"

\* Every PATCH ever sent carries the untouched values of the database it goes to.
Carries(e, s) ==
    wire[e][s].state # "none" /\ Backend[s] \in Hosts => Untouched(Backend[s]) \subseteq wire[e][s].rrset

SurvivalInv ==
    /\ \A e \in Edits : Pristine(e)
    /\ \A e \in Edits : \A s \in Servers : Carries(e, s)
    /\ PeerValuesSurvive

\* An edit that has begun remains so and keeps its operation and its primary; what has
\* begun touches its values forever.
LEMMA BegunForever ==
    ASSUME TypeOK, [Next]_vars, NEW f \in Edits, edit[f].phase # "idle"
    PROVE  edit'[f].phase # "idle" /\ edit'[f].op = edit[f].op /\ edit'[f].primary = edit[f].primary
<1>1. ASSUME NEW e \in Edits, NEW x, Becomes(e, x),
             edit[e].phase # "idle" => x.phase # "idle" /\ x.op = edit[e].op /\ x.primary = edit[e].primary
      PROVE  edit'[f].phase # "idle" /\ edit'[f].op = edit[f].op /\ edit'[f].primary = edit[f].primary
  BY <1>1 DEF Becomes, TypeOK
<1>2. ASSUME NEW e \in Edits, NEW op \in Operations, NEW p \in Servers, Begin(e, op, p)
      PROVE  edit'[f].phase # "idle" /\ edit'[f].op = edit[f].op /\ edit'[f].primary = edit[f].primary
  BY <1>1, <1>2 DEF Begin
<1>3. ASSUME NEW e \in Edits, NEW s \in Servers, Turn(e, s)
      PROVE  edit'[f].phase # "idle" /\ edit'[f].op = edit[f].op /\ edit'[f].primary = edit[f].primary
  BY <1>1, <1>3, AdvancedType, TableTypes DEF Turn
<1>4. ASSUME NEW e \in Edits, Becomes(e, Returned(edit[e]))
      PROVE  edit'[f].phase # "idle" /\ edit'[f].op = edit[f].op /\ edit'[f].primary = edit[f].primary
  BY <1>1, <1>4, ReturnedType, TableTypes
<1>5. ASSUME NEW e \in Edits, NEW phase \in {"done", "dead"}, Becomes(e, Ended(edit[e], phase))
      PROVE  edit'[f].phase # "idle" /\ edit'[f].op = edit[f].op /\ edit'[f].primary = edit[f].primary
  BY <1>1, <1>5, EndedType, TableTypes
<1>6. ASSUME NEW e \in Edits, Read(e)
      PROVE  edit'[f].phase # "idle" /\ edit'[f].op = edit[f].op /\ edit'[f].primary = edit[f].primary
  <2>1. CASE Becomes(e, ReadFound(edit[e], Source(e)))  BY <1>1, <2>1, ReadFoundType, TableTypes
  <2> QED  BY <1>4, <1>6, <2>1 DEF Read, ReadSkips
<1>7. ASSUME NEW e \in Edits, PatchTimesOut(e)
      PROVE  edit'[f].phase # "idle" /\ edit'[f].op = edit[f].op /\ edit'[f].primary = edit[f].primary
  <2>1. CASE Becomes(e, [edit[e] EXCEPT !.phase = "verify"])
    <3>1. /\ [edit[e] EXCEPT !.phase = "verify"].phase = "verify"
          /\ [edit[e] EXCEPT !.phase = "verify"].op = edit[e].op
          /\ [edit[e] EXCEPT !.phase = "verify"].primary = edit[e].primary
      BY TableTypes DEF Edit
    <3> QED  BY <1>1, <2>1, <3>1
  <2> QED  BY <1>4, <1>7, <2>1 DEF PatchTimesOut
<1>8. CASE UNCHANGED edit  BY <1>8
<1> QED
  BY <1>2, <1>3, <1>4, <1>5, <1>6, <1>7, <1>8
     DEF Next, vars, Apply, Drop, End, ReadFails, ReadSkips, PatchSaved, PatchRejected,
         verify_after_transport_error, Abandon

LEMMA StartForever == ASSUME [Next]_vars PROVE start' = start
BY DEF Next, vars, Begin, Turn, Apply, Drop, End, Read, ReadFails, PatchSaved, PatchRejected,
       PatchTimesOut, verify_after_transport_error, Abandon

LEMMA UntouchedShrinks ==
    ASSUME TypeOK, [Next]_vars, NEW b \in Backends
    PROVE  Untouched(b)' \subseteq Untouched(b)
<1>1. SUFFICES ASSUME NEW v \in start'[b],
                      \A e \in Edits : edit'[e].phase # "idle" => v \notin Touches(edit'[e].op)
               PROVE  /\ v \in start[b]
                      /\ \A e \in Edits : edit[e].phase # "idle" => v \notin Touches(edit[e].op)
  BY DEF Untouched
<1> QED  BY <1>1, BegunForever, StartForever

LEMMA UntouchedAvoids ==
    ASSUME TypeOK, NEW b \in Backends, NEW e \in Edits, edit[e].phase # "idle"
    PROVE  /\ Untouched(b) \cap Touches(edit[e].op) = {}
           /\ Untouched(b) \subseteq Values
BY DEF Untouched, TypeOK

LEMMA ModeATouchesAll == ASSUME NEW op, ModeA(op) PROVE Touches(op) = Values
BY DEF ModeA, Touches

\* What a step does to the PATCHes: nothing, send one, or change the state of one.
Sent(e, s) ==
    /\ edit[e].phase # "idle" /\ store' = store
    /\ \/ ModeA(edit[e].op) /\ Send(e, s, Payload(edit[e].op, {}))
       \/ Backend[s] \in Hosts /\ Send(e, s, Payload(edit[e].op, store[Backend[s]]))

Handled(e, s) ==
    /\ wire[e][s].state # "none"
    /\ \E state \in {"applied", "dropped"} : wire' = [wire EXCEPT ![e][s].state = state]
    /\ \/ store' = store
       \/ Backend[s] \in Hosts /\ store' = [store EXCEPT ![Backend[s]] = wire[e][s].rrset]

LEMMA WireStep ==
    ASSUME TypeOK, [Next]_vars
    PROVE  \/ UNCHANGED <<store, wire>>
           \/ \E e \in Edits : \E s \in Servers : Sent(e, s)
           \/ \E e \in Edits : \E s \in Servers : Handled(e, s)
<1>1. ASSUME NEW e \in Edits, NEW s \in Servers, Turn(e, s)
      PROVE  UNCHANGED <<store, wire>> \/ Sent(e, s)
  BY <1>1 DEF Turn, Sent
<1>2. ASSUME NEW e \in Edits, Read(e)
      PROVE  UNCHANGED <<store, wire>> \/ Sent(e, At(e))
  BY <1>2 DEF Read, ReadSkips, Source, Sent
<1>3. ASSUME NEW e \in Edits, NEW s \in Servers, Apply(e, s) PROVE Handled(e, s)
  BY <1>3 DEF Apply, Handled
<1>4. ASSUME NEW e \in Edits, NEW s \in Servers, Drop(e, s) PROVE Handled(e, s)
  BY <1>4 DEF Drop, Handled
<1>5. ASSUME NEW e \in Edits, PatchRejected(e) PROVE Handled(e, At(e))
  BY <1>5 DEF PatchRejected, Handled
<1>6. \A e \in Edits : At(e) \in Servers  BY TableTypes
<1>7. ASSUME NEW e \in Edits,
             \/ \E op \in Operations, p \in Servers : Begin(e, op, p)
             \/ End(e) \/ ReadFails(e) \/ PatchSaved(e) \/ PatchTimesOut(e)
             \/ verify_after_transport_error(e) \/ Abandon(e)
      PROVE  UNCHANGED <<store, wire>>
  BY <1>7 DEF Begin, End, ReadFails, ReadSkips, PatchSaved, PatchTimesOut,
              verify_after_transport_error, Abandon
<1>8. CASE UNCHANGED vars  BY <1>8 DEF vars
<1> QED  BY <1>1, <1>2, <1>3, <1>4, <1>5, <1>6, <1>7, <1>8 DEF Next

\* What a step does to an edit that has not begun: nothing, or it begins.
LEMMA PristineStep ==
    ASSUME TypeOK, \A e \in Edits : Pristine(e), [Next]_vars
    PROVE  \A e \in Edits : Pristine(e)'
<1> SUFFICES ASSUME NEW f \in Edits, edit'[f].phase = "idle"
             PROVE  \A s \in Servers : wire'[f][s].state = "none" /\ result'[f][s] = "none"
  BY DEF Pristine
<1>1. edit[f].phase = "idle"  BY BegunForever
<1>2. \A s \in Servers : wire[f][s].state = "none" /\ result[f][s] = "none"  BY <1>1 DEF Pristine
<1>3. wire'[f] = wire[f]
  <2>1. CASE UNCHANGED <<store, wire>>  BY <2>1
  <2>2. ASSUME NEW e \in Edits, NEW s \in Servers, Sent(e, s) PROVE wire'[f] = wire[f]
    BY <2>2, <1>1 DEF Sent, Send, TypeOK
  <2>3. ASSUME NEW e \in Edits, NEW s \in Servers, Handled(e, s) PROVE wire'[f] = wire[f]
    BY <2>3, <1>2 DEF Handled, TypeOK
  <2> QED  BY <2>1, <2>2, <2>3, WireStep
<1>4. result'[f] = result[f]
  <2>1. ASSUME NEW e \in Edits, NEW r, Report(e, r), edit[e].phase # "idle"
        PROVE  result'[f] = result[f]
    BY <2>1, <1>1 DEF Report, TypeOK
  <2>2. ASSUME NEW e \in Edits, NEW s \in Servers, Turn(e, s) \/ Apply(e, s) \/ Drop(e, s)
        PROVE  result' = result
    BY <2>2 DEF Turn, Apply, Drop
  <2>3. ASSUME NEW e \in Edits, NEW op \in Operations, NEW p \in Servers, Begin(e, op, p)
        PROVE  result' = result
    BY <2>3 DEF Begin
  <2>4. ASSUME NEW e \in Edits, Read(e) PROVE result'[f] = result[f]
    BY <2>1, <2>4 DEF Read, ReadSkips
  <2>5. ASSUME NEW e \in Edits, \/ End(e) \/ ReadFails(e) \/ PatchSaved(e) \/ Abandon(e)
        PROVE  result'[f] = result[f]
    BY <2>1, <2>5 DEF End, ReadFails, ReadSkips, PatchSaved, Abandon
  <2>6. ASSUME NEW e \in Edits, \/ PatchRejected(e) \/ PatchTimesOut(e) \/ verify_after_transport_error(e)
        PROVE  result'[f] = result[f]
    BY <2>1, <2>6 DEF PatchRejected, PatchTimesOut, verify_after_transport_error
  <2>7. CASE UNCHANGED vars  BY <2>7 DEF vars
  <2> QED  BY <2>2, <2>3, <2>4, <2>5, <2>6, <2>7 DEF Next
<1> QED  BY <1>2, <1>3, <1>4

LEMMA SurvivalInit == Init => SurvivalInv
<1> SUFFICES ASSUME Init PROVE SurvivalInv  OBVIOUS
<1>1. \A e \in Edits : \A s \in Servers : wire[e][s].state = "none" /\ result[e][s] = "none"
  BY DEF Init, NoPatch
<1> QED  BY <1>1 DEF SurvivalInv, Pristine, Carries, PeerValuesSurvive, Untouched, Init

LEMMA SurvivalStep == ASSUME TypeOK, SurvivalInv, [Next]_vars PROVE SurvivalInv'
<1>1. \A e \in Edits : Pristine(e)'  BY PristineStep DEF SurvivalInv
<1>2. \A b \in Backends : Untouched(b)' \subseteq Untouched(b)  BY UntouchedShrinks
<1>3. \A s \in Servers : Backend[s] \in Backends  OBVIOUS
<1>4. CASE UNCHANGED <<store, wire>>
  <2>1. \A e \in Edits : \A s \in Servers : Carries(e, s)'
    BY <1>2, <1>3, <1>4 DEF SurvivalInv, Carries
  <2>2. PeerValuesSurvive'  BY <1>2, <1>4 DEF SurvivalInv, PeerValuesSurvive
  <2> QED  BY <1>1, <2>1, <2>2 DEF SurvivalInv
<1>5. ASSUME NEW e \in Edits, NEW s \in Servers, Sent(e, s) PROVE SurvivalInv'
  <2>1. PICK rrset : /\ Send(e, s, Payload(edit[e].op, rrset)) /\ rrset \in SUBSET Values
                     /\ \/ ModeA(edit[e].op)
                        \/ Backend[s] \in Hosts /\ rrset = store[Backend[s]]
    BY <1>3, <1>5 DEF Sent, TypeOK
  <2>2. edit[e].phase # "idle" /\ edit[e].op \in Operations  BY <1>5, TableTypes DEF Sent
  <2>3. Backend[s] \in Hosts => Untouched(Backend[s]) \subseteq Payload(edit[e].op, rrset)
    <3>1. CASE ModeA(edit[e].op)
      <4>1. Untouched(Backend[s]) = {}  BY <1>3, <2>2, <3>1, UntouchedAvoids, ModeATouchesAll
      <4> QED  BY <4>1
    <3>2. CASE Backend[s] \in Hosts /\ rrset = store[Backend[s]]
      <4>1. Untouched(Backend[s]) \subseteq rrset  BY <3>2 DEF SurvivalInv, PeerValuesSurvive
      <4>2. Untouched(Backend[s]) \cap Touches(edit[e].op) = {}  BY <1>3, <2>2, UntouchedAvoids
      <4>3. rrset \ Touches(edit[e].op) \subseteq Payload(edit[e].op, rrset)
        BY <2>1, <2>2, PayloadKeeps
      <4> QED  BY <4>1, <4>2, <4>3
    <3> QED  BY <2>1, <3>1, <3>2
  <2>4. ASSUME NEW f \in Edits, NEW t \in Servers PROVE Carries(f, t)'
    <3>1. CASE f = e /\ t = s
      <4>1. wire'[f][t].rrset = Payload(edit[e].op, rrset)
        BY <2>1, <3>1 DEF Send, TypeOK
      <4> QED  BY <1>2, <1>3, <2>3, <3>1, <4>1 DEF Carries
    <3>2. CASE ~(f = e /\ t = s)
      <4>1. wire'[f][t] = wire[f][t]  BY <2>1, <3>2 DEF Send, TypeOK
      <4> QED  BY <1>2, <1>3, <4>1 DEF Carries, SurvivalInv
    <3> QED  BY <3>1, <3>2
  <2>5. PeerValuesSurvive'  BY <1>2, <1>5 DEF Sent, SurvivalInv, PeerValuesSurvive
  <2> QED  BY <1>1, <2>4, <2>5 DEF SurvivalInv
<1>6. ASSUME NEW e \in Edits, NEW s \in Servers, Handled(e, s) PROVE SurvivalInv'
  <2>1. ASSUME NEW f \in Edits, NEW t \in Servers
        PROVE  wire'[f][t].rrset = wire[f][t].rrset /\ (wire'[f][t].state # "none" => wire[f][t].state # "none")
    <3>1. PICK state \in {"applied", "dropped"} : wire' = [wire EXCEPT ![e][s].state = state]
      BY <1>6 DEF Handled
    <3>2. wire \in [Edits -> [Servers -> Patch]] /\ wire[f][t] \in Patch  BY DEF TypeOK
    <3>3. CASE f = e /\ t = s
      <4>1. wire'[f][t] = [wire[f][t] EXCEPT !.state = state]  BY <3>1, <3>2, <3>3
      <4> QED  BY <1>6, <3>2, <3>3, <4>1 DEF Patch, Handled
    <3>4. CASE ~(f = e /\ t = s)  BY <3>1, <3>2, <3>4
    <3> QED  BY <3>3, <3>4
  <2>2. \A f \in Edits : \A t \in Servers : Carries(f, t)'
    BY <1>2, <1>3, <2>1 DEF Carries, SurvivalInv
  <2>3. \A b \in Hosts : Untouched(b) \subseteq store'[b]
    <3>1. CASE store' = store  BY <3>1 DEF SurvivalInv, PeerValuesSurvive
    <3>2. CASE Backend[s] \in Hosts /\ store' = [store EXCEPT ![Backend[s]] = wire[e][s].rrset]
      <4>1. Untouched(Backend[s]) \subseteq wire[e][s].rrset
        BY <1>6, <3>2 DEF Handled, SurvivalInv, Carries
      <4> QED  BY <3>2, <4>1 DEF SurvivalInv, PeerValuesSurvive, TypeOK
    <3> QED  BY <1>6, <3>1, <3>2 DEF Handled
  <2>4. PeerValuesSurvive'  BY <1>2, <2>3 DEF PeerValuesSurvive
  <2> QED  BY <1>1, <2>2, <2>4 DEF SurvivalInv
<1> QED  BY <1>4, <1>5, <1>6, WireStep

\* A value that no edit was asked to take away is never lost, on any server, however
\* many edits interleave, time out, land late or die half-way.
THEOREM UntouchedValuesSurvive == Spec => []PeerValuesSurvive
<1>1. Init => TypeOK /\ SurvivalInv  BY InitType, SurvivalInit
<1>2. TypeOK /\ SurvivalInv /\ [Next]_vars => TypeOK' /\ SurvivalInv'  BY TypeStep, SurvivalStep
<1>3. SurvivalInv => PeerValuesSurvive  BY DEF SurvivalInv
<1> QED  BY <1>1, <1>2, <1>3, PTL DEF Spec

------------------------------------------------------------------------------
(* Peers follow the primary                                                 *)

PrimaryStore(e) == store[Backend[edit[e].primary]]

\* An edit that is past its primary, or was confirmed by it, has seen the primary as it
\* wants it; "held" misses no such moment while the edit runs.
FollowInv(e) ==
    /\ \A s \in Servers : wire[e][s].state # "none" => Wanted(edit[e].op, wire[e][s].rrset)
    /\ PrimaryTook(e) => note[e].held
    /\ Active(e) /\ wire[e][edit[e].primary].state = "applied" => note[e].held
    /\ Active(e) /\ Wanted(edit[e].op, PrimaryStore(e)) => note[e].held
    /\ edit[e].phase \in {"patch", "verify"} => wire[e][edit[e].at].state # "none"
    /\ edit[e].op.require_primary =>
          /\ edit[e].phase \in {"read", "patch", "verify"} /\ edit[e].at # edit[e].primary =>
                note[e].held
          /\ \A s \in Servers \ {edit[e].primary} : wire[e][s].state # "none" => note[e].held

Follow == \A e \in Edits : FollowInv(e)

\* Another edit's step, if no database changes, does not concern an edit.
LEMMA FollowElsewhere ==
    ASSUME NEW f \in Edits, FollowInv(f), edit'[f] = edit[f], wire'[f] = wire[f],
           result'[f] = result[f], note[f].held => note'[f].held, store' = store
    PROVE  FollowInv(f)'
BY DEF FollowInv, PrimaryTook, Active, PrimaryStore

\* The outcomes of a step of _apply_one: it is back at the loop with a report.
LEMMA FollowReport ==
    ASSUME TypeOK, NEW e \in Edits, FollowInv(e), Active(e), NEW r \in Results,
           Becomes(e, Returned(edit[e])), Report(e, r), store' = store, note' = note,
           \A s \in Servers : /\ wire'[e][s].rrset = wire[e][s].rrset
                              /\ wire'[e][s].state # "none" => wire[e][s].state # "none"
                              /\ wire'[e][s].state = "applied" => wire[e][s].state = "applied",
           r \in PrimarySuccess /\ At(e) = edit[e].primary => note[e].held
    PROVE  FollowInv(e)'
<1>1. /\ edit'[e].op = edit[e].op /\ edit'[e].primary = edit[e].primary
      /\ edit'[e].at = edit[e].at /\ edit'[e].phase = "next"
  BY ReturnedType, TableTypes DEF Becomes, TypeOK
<1>2. edit[e].primary \in Servers /\ At(e) \in Servers  BY TableTypes
<1>3. result'[e][edit[e].primary] = IF At(e) = edit[e].primary THEN r ELSE result[e][edit[e].primary]
  BY <1>2 DEF Report, TypeOK
<1>4. PrimaryTook(e)' => note'[e].held  BY <1>1, <1>3 DEF FollowInv, PrimaryTook
<1>5. \A s \in Servers : wire'[e][s].state # "none" => Wanted(edit'[e].op, wire'[e][s].rrset)
  BY <1>1 DEF FollowInv
<1>6. /\ wire'[e][edit'[e].primary].state = "applied" => note'[e].held
      /\ Wanted(edit'[e].op, PrimaryStore(e)') => note'[e].held
  BY <1>1, <1>2 DEF FollowInv, PrimaryStore
<1>7. edit'[e].op.require_primary =>
         \A s \in Servers \ {edit'[e].primary} : wire'[e][s].state # "none" => note'[e].held
  BY <1>1 DEF FollowInv
<1> QED  BY <1>1, <1>4, <1>5, <1>6, <1>7 DEF FollowInv

\* Sending a PATCH: to the primary, or to a peer of a primary that held the result.
LEMMA FollowSend ==
    ASSUME TypeOK, NEW e \in Edits, FollowInv(e), Active(e), NEW x \in Edit, NEW s \in Servers,
           NEW rrset \in SUBSET Values,
           Becomes(e, x), x.op = edit[e].op, x.primary = edit[e].primary, x.at = s,
           x.phase = "patch", Send(e, s, Payload(edit[e].op, rrset)),
           store' = store, note' = note, result' = result,
           edit[e].op.require_primary /\ s # edit[e].primary => note[e].held
    PROVE  FollowInv(e)'
<1>1. edit'[e] = x  BY DEF Becomes, TypeOK
<1>2. \A t \in Servers : wire'[e][t] = IF t = s THEN [state |-> "waiting",
                                                      rrset |-> Payload(edit[e].op, rrset)]
                                       ELSE wire[e][t]
  BY DEF Send, TypeOK
<1>3. edit[e].op \in Operations /\ edit[e].primary \in Servers  BY TableTypes
<1>4. \A t \in Servers : wire'[e][t].state # "none" => Wanted(x.op, wire'[e][t].rrset)
  BY <1>2, <1>3, PayloadIsWanted DEF FollowInv
<1>5. PrimaryTook(e)' => note'[e].held  BY <1>1 DEF FollowInv, PrimaryTook
<1>6. wire'[e][x.primary].state = "applied" => note'[e].held  BY <1>2, <1>3 DEF FollowInv
<1>7. Wanted(x.op, PrimaryStore(e)') => note'[e].held  BY <1>1 DEF FollowInv, PrimaryStore
<1>8. wire'[e][s].state # "none"  BY <1>2
<1>9. x.op.require_primary =>
         /\ s # x.primary => note'[e].held
         /\ \A t \in Servers \ {x.primary} : wire'[e][t].state # "none" => note'[e].held
  BY <1>2 DEF FollowInv
<1> QED  BY <1>1, <1>4, <1>5, <1>6, <1>7, <1>8, <1>9 DEF FollowInv

\* An edit that ends keeps what it has sent and reported.
LEMMA FollowOver ==
    ASSUME TypeOK, NEW e \in Edits, FollowInv(e), NEW phase \in {"done", "dead"},
           Becomes(e, Ended(edit[e], phase)), store' = store, wire' = wire, result' = result,
           note' = note
    PROVE  FollowInv(e)'
<1>1. /\ edit'[e].op = edit[e].op /\ edit'[e].primary = edit[e].primary
      /\ edit'[e].phase = phase
  BY EndedType, TableTypes DEF Becomes, TypeOK
<1> QED  BY <1>1 DEF FollowInv, PrimaryTook, Active

LEMMA FollowBegin ==
    ASSUME TypeOK, NEW e \in Edits, NEW op \in Operations, NEW p \in Servers, Begin(e, op, p),
           Pristine(e)
    PROVE  FollowInv(e)'
<1>1. edit'[e].op = op /\ edit'[e].primary = p /\ edit'[e].phase \in {"next", "done"}
  <2>1. CASE Becomes(e, Ended(NoEdit(op, p), "done"))
    BY <2>1, NoEditType, EndedType DEF Becomes, TypeOK
  <2>2. ASSUME NEW targets \in SUBSET Servers, NEW known \in BOOLEAN,
               NEW before \in SUBSET Values, Becomes(e, Started(op, p, targets, known, before))
        PROVE  edit'[e].op = op /\ edit'[e].primary = p /\ edit'[e].phase \in {"next", "done"}
    BY <2>2, StartedType DEF Becomes, TypeOK
  <2>3. store[Backend[p]] \in SUBSET Values  BY DEF TypeOK
  <2> QED  BY <2>1, <2>2, <2>3 DEF Begin
<1>2. wire' = wire /\ result' = result /\ store' = store  BY DEF Begin
<1>3. \A s \in Servers : wire[e][s].state = "none" /\ result[e][s] = "none"
  BY DEF Pristine, Begin
<1>4. note'[e].held = Wanted(op, store[Backend[p]])  BY DEF Begin
<1> QED  BY <1>1, <1>2, <1>3, <1>4 DEF FollowInv, PrimaryTook, PrimarySuccess, PrimaryStore, Active

LEMMA FollowApply ==
    ASSUME TypeOK, \A e \in Edits : FollowInv(e), NEW e0 \in Edits, NEW s0 \in Servers,
           Apply(e0, s0), NEW f \in Edits
    PROVE  FollowInv(f)'
<1>1. edit' = edit /\ result' = result  BY DEF Apply
<1>2. wire[e0][s0].state = "waiting" /\ wire' = [wire EXCEPT ![e0][s0].state = "applied"]
  BY DEF Apply
<1>3. ASSUME NEW s \in Servers
      PROVE  /\ wire'[f][s].rrset = wire[f][s].rrset
             /\ wire'[f][s].state = IF f = e0 /\ s = s0 THEN "applied" ELSE wire[f][s].state
  <2>1. wire \in [Edits -> [Servers -> Patch]] /\ wire[f][s] \in Patch  BY DEF TypeOK
  <2>2. CASE f = e0 /\ s = s0
    <3>1. wire'[f][s] = [wire[f][s] EXCEPT !.state = "applied"]  BY <1>2, <2>1, <2>2
    <3> QED  BY <2>1, <2>2, <3>1 DEF Patch
  <2>3. CASE ~(f = e0 /\ s = s0)  BY <1>2, <2>1, <2>3
  <2> QED  BY <2>2, <2>3
<1>4. note[f].held => note'[f].held  BY DEF Apply, TypeOK, Note
<1>5. Active(f) /\ Backend[edit[f].primary] = Backend[s0] /\ Wanted(edit[f].op, wire[e0][s0].rrset)
         => note'[f].held
  BY DEF Apply, TypeOK, Note
<1>6. edit[f].primary \in Servers /\ edit[f].at \in Servers  BY TableTypes
<1>7. \A s \in Servers : wire'[f][s].state # "none" => Wanted(edit[f].op, wire'[f][s].rrset)
  BY <1>2, <1>3 DEF FollowInv
<1>8. Active(f) /\ wire'[f][edit[f].primary].state = "applied" => note'[f].held
  <2>1. CASE f = e0 /\ edit[f].primary = s0  BY <1>2, <1>5, <2>1 DEF FollowInv
  <2>2. CASE ~(f = e0 /\ edit[f].primary = s0)  BY <1>3, <1>4, <1>6, <2>2 DEF FollowInv
  <2> QED  BY <2>1, <2>2
<1>9. Active(f) /\ Wanted(edit[f].op, store'[Backend[edit[f].primary]]) => note'[f].held
  <2>1. store' = [store EXCEPT ![Backend[s0]] = wire[e0][s0].rrset]  BY DEF Apply
  <2>2. CASE Backend[edit[f].primary] = Backend[s0]  BY <1>5, <1>6, <2>1, <2>2 DEF TypeOK
  <2>3. CASE Backend[edit[f].primary] # Backend[s0]
    BY <1>4, <1>6, <2>1, <2>3 DEF FollowInv, PrimaryStore, TypeOK
  <2> QED  BY <2>2, <2>3
<1>10. /\ PrimaryTook(f) => note'[f].held
       /\ edit[f].phase \in {"patch", "verify"} => wire'[f][edit[f].at].state # "none"
  BY <1>3, <1>4, <1>6 DEF FollowInv
<1>11. edit[f].op.require_primary =>
          /\ edit[f].phase \in {"read", "patch", "verify"} /\ edit[f].at # edit[f].primary =>
                note'[f].held
          /\ \A s \in Servers \ {edit[f].primary} : wire'[f][s].state # "none" => note'[f].held
  BY <1>2, <1>3, <1>4 DEF FollowInv
<1> QED
  BY <1>1, <1>7, <1>8, <1>9, <1>10, <1>11 DEF FollowInv, PrimaryTook, Active, PrimaryStore

LEMMA FollowStep ==
    ASSUME TypeOK, SurvivalInv, \A e \in Edits : FollowInv(e), [Next]_vars
    PROVE  \A e \in Edits : FollowInv(e)'
<1>1. ASSUME NEW e \in Edits, NEW op \in Operations, NEW p \in Servers, Begin(e, op, p)
      PROVE  \A f \in Edits : FollowInv(f)'
  <2>1. FollowInv(e)'  BY <1>1, FollowBegin DEF SurvivalInv
  <2>2. ASSUME NEW f \in Edits, f # e PROVE FollowInv(f)'
    <3>1. edit'[f] = edit[f]  BY <1>1, <2>2 DEF Begin, Becomes, TypeOK
    <3>2. note[f].held => note'[f].held  BY <1>1, <2>2 DEF Begin, TypeOK, Note
    <3> QED  BY <1>1, <3>1, <3>2, FollowElsewhere DEF Begin
  <2> QED  BY <2>1, <2>2
<1>2. ASSUME NEW e0 \in Edits, NEW s0 \in Servers, Apply(e0, s0)
      PROVE  \A f \in Edits : FollowInv(f)'
  BY <1>2, FollowApply
\* The other steps: what they do to another edit, and to their own.
<1>3. ASSUME NEW e \in Edits, FollowInv(e)', store' = store, note' = note,
             \A f \in Edits \ {e} : edit'[f] = edit[f] /\ wire'[f] = wire[f] /\ result'[f] = result[f]
      PROVE  \A f \in Edits : FollowInv(f)'
  BY <1>3, FollowElsewhere
<1>4. ASSUME NEW e \in Edits, NEW x, Becomes(e, x) PROVE \A f \in Edits \ {e} : edit'[f] = edit[f]
  BY <1>4 DEF Becomes, TypeOK
<1>5. ASSUME NEW e \in Edits, NEW r, Report(e, r) PROVE \A f \in Edits \ {e} : result'[f] = result[f]
  BY <1>5 DEF Report, TypeOK
<1>6. ASSUME NEW e \in Edits, NEW s, NEW rrset, Send(e, s, rrset)
      PROVE  \A f \in Edits \ {e} : wire'[f] = wire[f]
  BY <1>6 DEF Send, TypeOK
<1>7. ASSUME NEW e \in Edits, NEW s \in Servers, Turn(e, s) PROVE \A f \in Edits : FollowInv(f)'
  <2>1. edit[e].op \in Operations /\ edit[e] \in Edit /\ edit[e].primary \in Servers  BY TableTypes
  <2>2. Active(e)  BY <1>7 DEF Turn, Active
  <2>3. edit[e].op.require_primary /\ s # edit[e].primary => note[e].held
    BY <1>7 DEF Turn, MayGoOn, FollowInv
  <2>4. CASE ModeA(edit[e].op)
    <3>1. FollowInv(e)'
      <4> DEFINE x == Advanced(edit[e], s)
      <4>1. /\ x \in Edit /\ x.op = edit[e].op /\ x.primary = edit[e].primary
            /\ x.at = s /\ x.phase = "patch"
        BY <2>1, <2>4, AdvancedType
      <4>2. /\ Becomes(e, x) /\ Send(e, s, Payload(edit[e].op, {}))
            /\ store' = store /\ note' = note /\ result' = result
        BY <1>7, <2>4 DEF Turn
      <4> HIDE DEF x
      <4>3. {} \in SUBSET Values  OBVIOUS
      <4> QED  BY <2>2, <2>3, <4>1, <4>2, <4>3, FollowSend
    <3> QED  BY <1>3, <1>4, <1>6, <1>7, <2>4, <3>1 DEF Turn
  <2>5. CASE ~ModeA(edit[e].op)
    <3>1. /\ edit'[e].op = edit[e].op /\ edit'[e].primary = edit[e].primary
          /\ edit'[e].at = s /\ edit'[e].phase = "read"
      BY <1>7, <2>1, <2>5, AdvancedType DEF Turn, Becomes, TypeOK
    <3>2. wire' = wire /\ result' = result /\ store' = store /\ note' = note
      BY <1>7, <2>5 DEF Turn
    <3>3. FollowInv(e)'
      BY <2>2, <2>3, <3>1, <3>2 DEF FollowInv, PrimaryTook, PrimaryStore
    <3> QED  BY <1>3, <1>4, <1>7, <3>2, <3>3 DEF Turn
  <2> QED  BY <2>4, <2>5
<1>8. ASSUME NEW e \in Edits, End(e) PROVE \A f \in Edits : FollowInv(f)'
  BY <1>3, <1>4, <1>8, FollowOver DEF End
<1>9. ASSUME NEW e \in Edits, Abandon(e) PROVE \A f \in Edits : FollowInv(f)'
  BY <1>3, <1>4, <1>9, FollowOver DEF Abandon
\* A report that leaves the PATCHes alone.
<1>10. ASSUME NEW e \in Edits, NEW r \in Results, Active(e),
              Becomes(e, Returned(edit[e])), Report(e, r), UNCHANGED <<store, wire, note>>,
              r \in PrimarySuccess /\ At(e) = edit[e].primary => note[e].held
       PROVE  \A f \in Edits : FollowInv(f)'
  <2>1. FollowInv(e)'  BY <1>10, FollowReport
  <2> QED  BY <1>3, <1>4, <1>5, <1>10, <2>1
<1>11. ASSUME NEW e \in Edits, Read(e) PROVE \A f \in Edits : FollowInv(f)'
  <2>1. Active(e) /\ edit[e].op \in Operations /\ edit[e] \in Edit
        /\ Source(e) \in SUBSET Values /\ At(e) \in Servers
    BY <1>11, TableTypes DEF Read, Active
  <2>2. CASE \E status \in {"zone_missing", "no_match"} : ReadSkips(e, status)
    BY <1>10, <1>11, <2>1, <2>2 DEF Read, ReadSkips, Results, PrimarySuccess
  <2>3. CASE Unchanged(edit[e].op, Source(e)) /\ ReadSkips(e, "no_changes")
    <3>1. At(e) = edit[e].primary => note[e].held
      BY <2>1, <2>3, UnchangedIsWanted DEF FollowInv, Source, PrimaryStore
    <3> QED  BY <1>10, <1>11, <2>1, <2>3, <3>1 DEF Read, ReadSkips, Results
  <2>4. CASE /\ Becomes(e, ReadFound(edit[e], Source(e)))
             /\ Send(e, At(e), Payload(edit[e].op, Source(e)))
             /\ UNCHANGED result
    <3>1. edit[e].op.require_primary /\ At(e) # edit[e].primary => note[e].held
      BY <1>11 DEF Read, FollowInv, At
    <3>2. FollowInv(e)'
      BY <1>11, <2>1, <2>4, <3>1, ReadFoundType, FollowSend DEF Read, At
    <3> QED  BY <1>3, <1>4, <1>6, <1>11, <2>4, <3>2 DEF Read
  <2> QED  BY <1>11, <2>2, <2>3, <2>4 DEF Read
<1>12. ASSUME NEW e \in Edits, ReadFails(e) PROVE \A f \in Edits : FollowInv(f)'
  BY <1>10, <1>12 DEF ReadFails, ReadSkips, Results, PrimarySuccess, Active
<1>13. ASSUME NEW e \in Edits, PatchSaved(e) PROVE \A f \in Edits : FollowInv(f)'
  <2>1. Active(e)  BY <1>13 DEF PatchSaved, Active
  <2>2. At(e) = edit[e].primary => note[e].held  BY <1>13, <2>1 DEF PatchSaved, FollowInv
  <2> QED  BY <1>10, <1>13, <2>1, <2>2 DEF PatchSaved, Results
\* A PATCH that is dropped, with or without a report.
<1>14. ASSUME NEW e \in Edits, NEW s \in Servers, wire[e][s].state = "waiting",
              wire' = [wire EXCEPT ![e][s].state = "dropped"]
       PROVE  /\ \A f \in Edits \ {e} : wire'[f] = wire[f]
              /\ \A t \in Servers : /\ wire'[e][t].rrset = wire[e][t].rrset
                                    /\ (wire'[e][t].state # "none") <=> (wire[e][t].state # "none")
                                    /\ wire'[e][t].state = "applied" => wire[e][t].state = "applied"
  <2>1. wire \in [Edits -> [Servers -> Patch]] /\ wire[e][s] \in Patch  BY DEF TypeOK
  <2>2. wire'[e][s] = [wire[e][s] EXCEPT !.state = "dropped"]  BY <1>14, <2>1
  <2>3. \A t \in Servers \ {s} : wire'[e][t] = wire[e][t]  BY <1>14, <2>1
  <2>4. \A f \in Edits \ {e} : wire'[f] = wire[f]  BY <1>14, <2>1
  <2> QED  BY <1>14, <2>1, <2>2, <2>3, <2>4 DEF Patch
<1>15. ASSUME NEW e \in Edits, NEW s \in Servers, Drop(e, s) PROVE \A f \in Edits : FollowInv(f)'
  <2>1. /\ wire[e][s].state = "waiting" /\ wire' = [wire EXCEPT ![e][s].state = "dropped"]
        /\ edit' = edit /\ result' = result /\ note' = note /\ store' = store
    BY <1>15 DEF Drop
  <2>2. edit[e].primary \in Servers /\ edit[e].at \in Servers  BY TableTypes
  <2>3. \A t \in Servers : /\ wire'[e][t].rrset = wire[e][t].rrset
                           /\ (wire'[e][t].state # "none") <=> (wire[e][t].state # "none")
                           /\ wire'[e][t].state = "applied" => wire[e][t].state = "applied"
    BY <1>14, <2>1
  <2>4. FollowInv(e)'
    BY <2>1, <2>2, <2>3 DEF FollowInv, PrimaryTook, PrimaryStore, Active
  <2> QED  BY <1>3, <1>14, <2>1, <2>4
<1>16. ASSUME NEW e \in Edits, PatchRejected(e) PROVE \A f \in Edits : FollowInv(f)'
  <2>1. Active(e) /\ At(e) \in Servers  BY <1>16, TableTypes DEF PatchRejected, Active
  <2>2. PICK r \in {"error", "zone_missing"} : Report(e, r)  BY <1>16 DEF PatchRejected
  <2>3. r \in Results /\ r \notin PrimarySuccess  BY DEF Results, PrimarySuccess
  <2>4. /\ wire[e][At(e)].state = "waiting" /\ wire' = [wire EXCEPT ![e][At(e)].state = "dropped"]
        /\ Becomes(e, Returned(edit[e])) /\ store' = store /\ note' = note
    BY <1>16 DEF PatchRejected
  <2>5. FollowInv(e)'  BY <1>14, <2>1, <2>2, <2>3, <2>4, FollowReport
  <2> QED  BY <1>3, <1>4, <1>5, <1>14, <2>1, <2>2, <2>4, <2>5
<1>17. ASSUME NEW e \in Edits, PatchTimesOut(e) PROVE \A f \in Edits : FollowInv(f)'
  <2>1. Active(e)  BY <1>17 DEF PatchTimesOut, Active
  <2>2. CASE Becomes(e, Returned(edit[e])) /\ Report(e, "error")
    BY <1>10, <1>17, <2>1, <2>2 DEF PatchTimesOut, Results, PrimarySuccess
  <2>3. CASE Becomes(e, [edit[e] EXCEPT !.phase = "verify"]) /\ UNCHANGED result
    <3>1. edit[e] \in Edit  BY TableTypes
    <3>2. /\ edit'[e].op = edit[e].op /\ edit'[e].primary = edit[e].primary
          /\ edit'[e].at = edit[e].at /\ edit'[e].phase = "verify"
      BY <2>3, <3>1 DEF Becomes, TypeOK, Edit
    <3>3. FollowInv(e)'
      BY <1>17, <2>1, <2>3, <3>2 DEF PatchTimesOut, FollowInv, PrimaryTook, PrimaryStore
    <3> QED  BY <1>3, <1>4, <1>17, <2>3, <3>3 DEF PatchTimesOut
  <2> QED  BY <1>17, <2>2, <2>3 DEF PatchTimesOut
<1>18. ASSUME NEW e \in Edits, verify_after_transport_error(e) PROVE \A f \in Edits : FollowInv(f)'
  <2>1. Active(e) /\ At(e) \in Servers
    BY <1>18, TableTypes DEF verify_after_transport_error, Active
  <2>2. CASE Report(e, "unclear")
    BY <1>10, <1>18, <2>1, <2>2 DEF verify_after_transport_error, Results, PrimarySuccess
  <2>3. CASE Report(e, Outcome(store[Backend[At(e)]], wire[e][At(e)].rrset,
                               edit[e].known, edit[e].before))
    <3> DEFINE r == Outcome(store[Backend[At(e)]], wire[e][At(e)].rrset, edit[e].known, edit[e].before)
    <3>1. r \in Results  BY DEF Outcome, Results
    <3>2. r \in PrimarySuccess => store[Backend[At(e)]] = wire[e][At(e)].rrset
      BY DEF Outcome, PrimarySuccess
    <3>3. Wanted(edit[e].op, wire[e][At(e)].rrset)
      BY <1>18, <2>1 DEF verify_after_transport_error, FollowInv, At
    <3>4. r \in PrimarySuccess /\ At(e) = edit[e].primary => note[e].held
      BY <2>1, <3>2, <3>3 DEF FollowInv, PrimaryStore
    <3> HIDE DEF r
    <3> QED  BY <1>10, <1>18, <2>1, <2>3, <3>1, <3>4 DEF verify_after_transport_error, r
  <2> QED  BY <1>18, <2>2, <2>3 DEF verify_after_transport_error
<1>19. CASE UNCHANGED vars
  BY <1>19 DEF vars, FollowInv, PrimaryTook, PrimaryStore, Active
<1> QED
  BY <1>1, <1>2, <1>7, <1>8, <1>9, <1>11, <1>12, <1>13, <1>15, <1>16, <1>17, <1>18, <1>19 DEF Next

LEMMA FollowInit == Init => \A e \in Edits : FollowInv(e)
<1> SUFFICES ASSUME Init, NEW e \in Edits PROVE FollowInv(e)  OBVIOUS
<1> DEFINE op0 == CHOOSE op \in Operations : TRUE
           s0  == CHOOSE s \in Servers : TRUE
<1>1. op0 \in Operations /\ s0 \in Servers  OBVIOUS
<1>2. edit = [f \in Edits |-> NoEdit(op0, s0)]  BY DEF Init
<1> HIDE DEF op0, s0
<1>3. edit[e].phase = "idle" /\ edit[e].primary \in Servers  BY <1>1, <1>2, NoEditType
<1>4. \A s \in Servers : wire[e][s].state = "none" /\ result[e][s] = "none"  BY DEF Init, NoPatch
<1> QED  BY <1>3, <1>4 DEF FollowInv, PrimaryTook, PrimarySuccess, Active

\* If the caller requires the primary, no peer is ever sent an edit whose result the
\* primary did not hold, also when the primary's answer was lost.
THEOREM PeersNeverRunAhead == Spec => []PeersFollowPrimary
<1>1. Init => TypeOK /\ SurvivalInv /\ Follow  BY InitType, SurvivalInit, FollowInit DEF Follow
<1>2. TypeOK /\ SurvivalInv /\ Follow /\ [Next]_vars => TypeOK' /\ SurvivalInv' /\ Follow'
  BY TypeStep, SurvivalStep, FollowStep DEF Follow
<1>3. Follow => PeersFollowPrimary  BY DEF Follow, FollowInv, PeersFollowPrimary
<1> QED  BY <1>1, <1>2, <1>3, PTL DEF Spec

------------------------------------------------------------------------------
(* An edit without another one                                              *)

\* While the observer calls an edit alone, no other one runs or may still be applied.
Secluded(e) ==
    note[e].alone => \A f \in Edits \ {e} :
        ~Active(f) /\ \A s \in Servers : wire[f][s].state # "waiting"

\* What a step does to an edit that is alone: it sends a PATCH to a server,
Sends(e) ==
    /\ store' = store /\ result'[e] = result[e]
    /\ \E s \in Servers :
          /\ \A t \in Servers \ {s} : wire'[e][t] = wire[e][t]
          /\ wire'[e][s].state = "waiting"
          /\ \/ ModeA(edit[e].op) /\ wire'[e][s].rrset = Payload(edit[e].op, {})
             \/ /\ Backend[s] \in Hosts /\ Matches(edit[e].op, store[Backend[s]])
                /\ wire'[e][s].rrset = Payload(edit[e].op, store[Backend[s]])

\* a server applies one,
Lands(e) ==
    /\ result'[e] = result[e]
    /\ \E s \in Servers :
          /\ Backend[s] \in Hosts /\ wire[e][s].state = "waiting"
          /\ store' = [store EXCEPT ![Backend[s]] = wire[e][s].rrset]
          /\ \A t \in Servers \ {s} : wire'[e][t] = wire[e][t]
          /\ wire'[e][s].state = "applied" /\ wire'[e][s].rrset = wire[e][s].rrset

\* or the databases stay as they are, and what is reported of a server is true.
TrueReport(e, s) ==
    LET r == result'[e][s]  op == edit[e].op  rrset == store[Backend[s]] IN
    /\ r = "saved" => wire[e][s].state = "applied"
    /\ r = "verified_after_timeout" => wire[e][s].state # "none" /\ rrset = wire[e][s].rrset
    /\ r = "no_changes" => Unchanged(op, rrset)
    /\ r = "no_match" => ~Matches(op, rrset)
    /\ r = "zone_missing" => Backend[s] \notin Hosts

Reports(e) ==
    /\ store' = store
    /\ \A s \in Servers :
          /\ wire'[e][s].rrset = wire[e][s].rrset
          /\ (wire'[e][s].state # "none") <=> (wire[e][s].state # "none")
          /\ wire'[e][s].state = "applied" => wire[e][s].state = "applied"
          /\ result'[e][s] # result[e][s] => TrueReport(e, s)

Proceeds(e) ==
    /\ edit'[e].op = edit[e].op /\ edit'[e].primary = edit[e].primary
    /\ Sends(e) \/ Lands(e) \/ Reports(e)

\* A step of an edit that has begun, and of its PATCHes.
StepOf(e) ==
    \/ \E s \in Servers : Turn(e, s) \/ Apply(e, s) \/ Drop(e, s)
    \/ End(e) \/ Read(e) \/ ReadFails(e) \/ PatchSaved(e) \/ PatchRejected(e)
    \/ PatchTimesOut(e) \/ verify_after_transport_error(e) \/ Abandon(e)

LEMMA StepIsOwn ==
    ASSUME TypeOK, NEW e \in Edits, StepOf(e)
    PROVE  /\ Active(e) \/ \E s \in Servers : wire[e][s].state = "waiting"
           /\ \A f \in Edits : note'[f].alone = note[f].alone /\ note'[f].synced = note[f].synced
           /\ \A f \in Edits \ {e} : edit'[f] = edit[f] /\ wire'[f] = wire[f]
<1>1. Active(e) \/ \E s \in Servers : wire[e][s].state = "waiting"
  BY DEF StepOf, Turn, Apply, Drop, End, Read, ReadFails, PatchSaved, PatchRejected,
         PatchTimesOut, verify_after_transport_error, Abandon, Active
<1>2. note' = note \/ \E s \in Servers : Apply(e, s)
  BY DEF StepOf, Turn, Drop, End, Read, ReadFails, PatchSaved, PatchRejected,
         PatchTimesOut, verify_after_transport_error, Abandon
<1>3. \A f \in Edits : note'[f].alone = note[f].alone /\ note'[f].synced = note[f].synced
  <2>1. CASE note' = note  BY <2>1
  <2>2. ASSUME NEW s \in Servers, Apply(e, s)
        PROVE  \A f \in Edits : note'[f].alone = note[f].alone /\ note'[f].synced = note[f].synced
    BY <2>2 DEF Apply, TypeOK, Note
  <2> QED  BY <1>2, <2>1, <2>2
<1>4. edit' = edit \/ \E x : Becomes(e, x)
  BY DEF StepOf, Turn, Apply, Drop, End, Read, ReadSkips, ReadFails, PatchSaved, PatchRejected,
         PatchTimesOut, verify_after_transport_error, Abandon
<1>5. \A f \in Edits \ {e} : edit'[f] = edit[f]  BY <1>4 DEF Becomes, TypeOK
<1>6. wire' = wire \/ \E s \in Servers : \E y : wire' = [wire EXCEPT ![e][s] = y]
  <2>1. CASE \E s \in Servers : Turn(e, s)
    BY <2>1 DEF Turn, Send
  <2>2. ASSUME NEW s \in Servers, Apply(e, s) \/ Drop(e, s)
        PROVE  \E y : wire' = [wire EXCEPT ![e][s] = y]
    <3>1. PICK state : wire' = [wire EXCEPT ![e][s].state = state]  BY <2>2 DEF Apply, Drop
    <3>2. wire' = [wire EXCEPT ![e][s] = [@ EXCEPT !.state = state]]  BY <3>1
    <3>3. wire' = [wire EXCEPT ![e][s] = [wire[e][s] EXCEPT !.state = state]]
      BY <3>2 DEF TypeOK
    <3> QED  BY <3>3
  <2>3. CASE Read(e)  BY <2>3, TableTypes DEF Read, ReadSkips, Send
  <2>4. CASE PatchRejected(e)
    <3>1. wire' = [wire EXCEPT ![e][At(e)] = [wire[e][At(e)] EXCEPT !.state = "dropped"]]
      BY <2>4, TableTypes DEF PatchRejected, TypeOK
    <3> QED  BY <3>1, TableTypes
  <2>5. CASE End(e) \/ ReadFails(e) \/ PatchSaved(e) \/ PatchTimesOut(e)
             \/ verify_after_transport_error(e) \/ Abandon(e)
    BY <2>5 DEF End, ReadFails, ReadSkips, PatchSaved, PatchTimesOut,
                verify_after_transport_error, Abandon
  <2> QED  BY <2>1, <2>2, <2>3, <2>4, <2>5 DEF StepOf
<1>7. \A f \in Edits \ {e} : wire'[f] = wire[f]  BY <1>6 DEF TypeOK
<1> QED  BY <1>1, <1>3, <1>5, <1>7

LEMMA StepKinds ==
    ASSUME [Next]_vars
    PROVE  \/ \E e \in Edits : \E op \in Operations, p \in Servers : Begin(e, op, p)
           \/ \E e \in Edits : StepOf(e)
           \/ UNCHANGED vars
BY DEF Next, StepOf

LEMMA SecludedStep ==
    ASSUME TypeOK, NEW e \in Edits, Secluded(e), [Next]_vars
    PROVE  Secluded(e)'
<1>1. ASSUME NEW f \in Edits, NEW op \in Operations, NEW p \in Servers, Begin(f, op, p)
      PROVE  Secluded(e)'
  <2>1. CASE f = e
    <3>1. \A g \in Edits \ {e} : edit'[g] = edit[g]
      BY <1>1, <2>1 DEF Begin, Becomes, TypeOK
    <3>2. wire' = wire /\ note'[e].alone = Quiet  BY <1>1, <2>1 DEF Begin
    <3> QED  BY <3>1, <3>2 DEF Secluded, Quiet, Active
  <2>2. CASE f # e
    <3>1. ~note'[e].alone  BY <1>1, <2>2 DEF Begin, TypeOK, Note
    <3> QED  BY <3>1 DEF Secluded
  <2> QED  BY <2>1, <2>2
<1>2. ASSUME NEW f \in Edits, StepOf(f) PROVE Secluded(e)'
  <2>1. CASE f = e  BY <1>2, <2>1, StepIsOwn DEF Secluded, Active
  <2>2. CASE f # e
    <3>1. ~note'[e].alone  BY <1>2, <2>2, StepIsOwn DEF Secluded
    <3> QED  BY <3>1 DEF Secluded
  <2> QED  BY <2>1, <2>2
<1>3. CASE UNCHANGED vars  BY <1>3 DEF vars, Secluded, Active
<1> QED  BY <1>1, <1>2, <1>3, StepKinds

\* The actions of an edit, as one of the three.
LEMMA StepProceeds ==
    ASSUME TypeOK, NEW e \in Edits, FollowInv(e), StepOf(e)
    PROVE  Proceeds(e)
<1>0. /\ edit[e] \in Edit /\ edit[e].op \in Operations /\ edit[e].primary \in Servers
      /\ At(e) \in Servers
  BY TableTypes
<1>1. ASSUME NEW x, Becomes(e, x), x.op = edit[e].op, x.primary = edit[e].primary,
             Sends(e) \/ Lands(e) \/ Reports(e)
      PROVE  Proceeds(e)
  BY <1>1 DEF Becomes, TypeOK, Proceeds
<1>2. ASSUME NEW s \in Servers, NEW rrset, Send(e, s, rrset), store' = store, result' = result,
             \/ ModeA(edit[e].op) /\ rrset = Payload(edit[e].op, {})
             \/ /\ Backend[s] \in Hosts /\ Matches(edit[e].op, store[Backend[s]])
                /\ rrset = Payload(edit[e].op, store[Backend[s]])
      PROVE  Sends(e)
  <2>1. \A t \in Servers : wire'[e][t] = IF t = s THEN [state |-> "waiting", rrset |-> rrset]
                                         ELSE wire[e][t]
    BY <1>2 DEF Send, TypeOK
  <2> QED  BY <1>2, <2>1 DEF Sends
<1>3. ASSUME NEW s \in Servers, NEW state \in {"applied", "dropped"},
             wire' = [wire EXCEPT ![e][s].state = state]
      PROVE  /\ \A t \in Servers \ {s} : wire'[e][t] = wire[e][t]
             /\ wire'[e][s].rrset = wire[e][s].rrset /\ wire'[e][s].state = state
  <2>1. wire \in [Edits -> [Servers -> Patch]] /\ wire[e][s] \in Patch  BY DEF TypeOK
  <2>2. wire'[e][s] = [wire[e][s] EXCEPT !.state = state]  BY <1>3, <2>1
  <2>3. \A t \in Servers \ {s} : wire'[e][t] = wire[e][t]  BY <1>3, <2>1
  <2> QED  BY <2>1, <2>2, <2>3 DEF Patch
<1>4. ASSUME store' = store, wire' = wire, result' = result PROVE Reports(e)
  BY <1>4 DEF Reports
<1>5. ASSUME NEW r, Becomes(e, Returned(edit[e])), Report(e, r), UNCHANGED <<store, wire>>,
             result'[e][At(e)] = r => TrueReport(e, At(e))
      PROVE  Proceeds(e)
  <2>1. \A s \in Servers : result'[e][s] = IF s = At(e) THEN r ELSE result[e][s]
    BY <1>0, <1>5 DEF Report, TypeOK
  <2>2. Reports(e)  BY <1>0, <1>5, <2>1 DEF Reports
  <2> QED  BY <1>0, <1>1, <1>5, <2>2, ReturnedType
<1>6. ASSUME NEW s \in Servers, Turn(e, s) PROVE Proceeds(e)
  <2>1. Sends(e) \/ Reports(e)
    <3>1. CASE ModeA(edit[e].op)  BY <1>2, <1>6, <3>1 DEF Turn
    <3>2. CASE ~ModeA(edit[e].op)  BY <1>4, <1>6, <3>2 DEF Turn
    <3> QED  BY <3>1, <3>2
  <2> QED  BY <1>0, <1>1, <1>6, <2>1, AdvancedType DEF Turn
<1>7. ASSUME NEW s \in Servers, Apply(e, s) PROVE Proceeds(e)
  <2>1. Lands(e)  BY <1>3, <1>7 DEF Apply, Lands
  <2> QED  BY <1>7, <2>1 DEF Apply, Proceeds
<1>8. ASSUME NEW s \in Servers, wire[e][s].state = "waiting",
             wire' = [wire EXCEPT ![e][s].state = "dropped"], store' = store,
             \A t \in Servers : result'[e][t] # result[e][t] => TrueReport(e, t)
      PROVE  Reports(e)
  BY <1>3, <1>8 DEF Reports
<1>9. ASSUME NEW s \in Servers, Drop(e, s) PROVE Proceeds(e)
  <2>1. Reports(e)  BY <1>8, <1>9 DEF Drop
  <2> QED  BY <1>9, <2>1 DEF Drop, Proceeds
<1>10. ASSUME NEW phase \in {"done", "dead"}, Becomes(e, Ended(edit[e], phase)),
              store' = store, wire' = wire, result' = result
       PROVE  Proceeds(e)
  BY <1>0, <1>1, <1>4, <1>10, EndedType
<1>11. CASE End(e) \/ Abandon(e)  BY <1>10, <1>11 DEF End, Abandon
<1>12. CASE Read(e)
  <2>1. CASE ReadSkips(e, "zone_missing") /\ Backend[At(e)] \notin Hosts
    BY <1>5, <1>12, <2>1 DEF Read, ReadSkips, TrueReport
  <2>2. CASE ReadSkips(e, "no_match") /\ ~Matches(edit[e].op, Source(e))
    BY <1>5, <1>12, <2>2 DEF Read, ReadSkips, TrueReport, Source
  <2>3. CASE ReadSkips(e, "no_changes") /\ Unchanged(edit[e].op, Source(e))
    BY <1>5, <1>12, <2>3 DEF Read, ReadSkips, TrueReport, Source
  <2>4. CASE /\ Backend[At(e)] \in Hosts /\ Matches(edit[e].op, Source(e))
             /\ Becomes(e, ReadFound(edit[e], Source(e)))
             /\ Send(e, At(e), Payload(edit[e].op, Source(e)))
             /\ UNCHANGED result
    <3>1. Sends(e)  BY <1>0, <1>2, <1>12, <2>4 DEF Read, Source
    <3> QED  BY <1>0, <1>1, <2>4, <3>1, ReadFoundType, TableTypes
  <2> QED  BY <1>12, <2>1, <2>2, <2>3, <2>4 DEF Read
<1>13. CASE ReadFails(e)
  BY <1>5, <1>13 DEF ReadFails, ReadSkips, TrueReport
<1>14. CASE PatchSaved(e)  BY <1>5, <1>14 DEF PatchSaved, TrueReport
<1>15. CASE PatchRejected(e)
  <2>1. PICK r \in {"error", "zone_missing"} :
           Report(e, r) /\ (r = "zone_missing" => Backend[At(e)] \notin Hosts)
    BY <1>15 DEF PatchRejected
  <2>2. \A t \in Servers : result'[e][t] # result[e][t] => t = At(e) /\ result'[e][t] = r
    BY <1>0, <2>1 DEF Report, TypeOK
  <2>3. \A t \in Servers : result'[e][t] # result[e][t] => TrueReport(e, t)
    BY <2>1, <2>2 DEF TrueReport
  <2>4. Reports(e)  BY <1>0, <1>8, <1>15, <2>3 DEF PatchRejected
  <2> QED  BY <1>0, <1>1, <1>15, <2>4, ReturnedType DEF PatchRejected
<1>16. CASE PatchTimesOut(e)
  <2>1. CASE Becomes(e, [edit[e] EXCEPT !.phase = "verify"]) /\ UNCHANGED result
    <3>1. /\ [edit[e] EXCEPT !.phase = "verify"].op = edit[e].op
          /\ [edit[e] EXCEPT !.phase = "verify"].primary = edit[e].primary
      BY <1>0 DEF Edit
    <3>2. Reports(e)  BY <1>4, <1>16, <2>1 DEF PatchTimesOut
    <3> QED  BY <1>1, <2>1, <3>1, <3>2
  <2>2. CASE Becomes(e, Returned(edit[e])) /\ Report(e, "error")
    BY <1>5, <1>16, <2>2 DEF PatchTimesOut, TrueReport
  <2> QED  BY <1>16, <2>1, <2>2 DEF PatchTimesOut
<1>17. CASE verify_after_transport_error(e)
  <2>0. wire[e][At(e)].state # "none"
    BY <1>17 DEF verify_after_transport_error, FollowInv, At
  <2>1. CASE Report(e, "unclear")
    BY <1>5, <1>17, <2>1 DEF verify_after_transport_error, TrueReport
  <2>2. CASE Report(e, Outcome(store[Backend[At(e)]], wire[e][At(e)].rrset,
                               edit[e].known, edit[e].before))
    <3> DEFINE r == Outcome(store[Backend[At(e)]], wire[e][At(e)].rrset, edit[e].known, edit[e].before)
    <3>1. r \in {"verified_after_timeout", "error", "unclear"}  BY DEF Outcome
    <3>2. r = "verified_after_timeout" => store[Backend[At(e)]] = wire[e][At(e)].rrset
      BY DEF Outcome
    <3> HIDE DEF r
    <3>3. result'[e][At(e)] = r => TrueReport(e, At(e))  BY <2>0, <3>1, <3>2 DEF TrueReport
    <3> QED  BY <1>5, <1>17, <2>2, <3>3 DEF verify_after_transport_error, r
  <2> QED  BY <1>17, <2>1, <2>2 DEF verify_after_transport_error
<1> QED
  BY <1>6, <1>7, <1>9, <1>11, <1>12, <1>13, <1>14, <1>15, <1>16, <1>17 DEF StepOf

\* A step while an edit is alone begins it or is its own.
LEMMA AloneProceeds ==
    ASSUME TypeOK, NEW e \in Edits, Secluded(e), FollowInv(e), [Next]_vars, note'[e].alone
    PROVE  \/ \E op \in Operations, p \in Servers : Begin(e, op, p)
           \/ note[e].alone /\ note'[e].synced = note[e].synced /\ Proceeds(e)
<1>1. ASSUME NEW f \in Edits, NEW op \in Operations, NEW p \in Servers, Begin(f, op, p)
      PROVE  f = e
  BY <1>1 DEF Begin, TypeOK, Note
<1>2. ASSUME NEW f \in Edits, StepOf(f)
      PROVE  f = e /\ note[e].alone /\ note'[e].synced = note[e].synced
  BY <1>2, StepIsOwn DEF Secluded
<1>3. CASE UNCHANGED vars
  BY <1>3 DEF vars, Proceeds, Reports
<1> QED  BY <1>1, <1>2, <1>3, StepKinds, StepProceeds

\* What the primary confirmed, or has applied, is what it holds.
KeptInv(e) ==
    note[e].alone /\ (PrimaryTook(e) \/ wire[e][edit[e].primary].state = "applied") =>
        Wanted(edit[e].op, PrimaryStore(e))

LEMMA KeptStep ==
    ASSUME TypeOK, NEW e \in Edits, Pristine(e), FollowInv(e), Secluded(e), KeptInv(e), [Next]_vars
    PROVE  KeptInv(e)'
<1>1. SUFFICES ASSUME note'[e].alone PROVE KeptInv(e)'  BY DEF KeptInv
<1>2. ASSUME NEW op \in Operations, NEW p \in Servers, Begin(e, op, p) PROVE KeptInv(e)'
  <2>1. FollowInv(e)' /\ edit'[e].primary \in Servers  BY <1>2, FollowBegin, TypeStep, TableTypes DEF TypeOK, Edit
  <2>2. \A s \in Servers : wire'[e][s].state = "none" /\ result'[e][s] = "none"
    BY <1>2 DEF Begin, Pristine
  <2> QED  BY <2>1, <2>2 DEF KeptInv, PrimaryTook, PrimarySuccess
<1>3. CASE note[e].alone /\ Proceeds(e)
  <2>0. /\ edit'[e].op = edit[e].op /\ edit'[e].primary = edit[e].primary
        /\ edit[e].primary \in Servers /\ edit[e].op \in Operations
    BY <1>3, TableTypes DEF Proceeds
  <2>1. CASE Sends(e)
    BY <1>3, <2>0, <2>1 DEF Sends, KeptInv, PrimaryTook, PrimaryStore
  <2>2. CASE Lands(e)
    <3>1. PICK s \in Servers :
             /\ wire[e][s].state = "waiting"
             /\ store' = [store EXCEPT ![Backend[s]] = wire[e][s].rrset]
             /\ \A t \in Servers \ {s} : wire'[e][t] = wire[e][t]
      BY <2>2 DEF Lands
    <3>2. result'[e] = result[e] /\ store \in [Backends -> SUBSET Values]
      BY <2>2 DEF Lands, TypeOK
    <3>3. CASE Backend[s] = Backend[edit[e].primary]
      <4>1. Wanted(edit[e].op, wire[e][s].rrset)  BY <3>1 DEF FollowInv
      <4>2. PrimaryStore(e)' = wire[e][s].rrset  BY <2>0, <3>1, <3>2, <3>3 DEF PrimaryStore
      <4> QED  BY <2>0, <4>1, <4>2 DEF KeptInv
    <3>4. CASE Backend[s] # Backend[edit[e].primary]
      <4>1. PrimaryStore(e)' = PrimaryStore(e)  BY <2>0, <3>1, <3>2, <3>4 DEF PrimaryStore
      <4>2. wire'[e][edit[e].primary] = wire[e][edit[e].primary]  BY <2>0, <3>1, <3>4
      <4> QED  BY <1>3, <2>0, <3>2, <4>1, <4>2 DEF KeptInv, PrimaryTook
    <3> QED  BY <3>3, <3>4
  <2>3. CASE Reports(e)
    <3> DEFINE p == edit[e].primary
    <3>1. PrimaryStore(e)' = PrimaryStore(e)  BY <2>0, <2>3 DEF Reports, PrimaryStore
    <3>2. wire'[e][p].state = "applied" => wire[e][p].state = "applied"  BY <2>0, <2>3 DEF Reports
    <3>3. CASE result'[e][p] = result[e][p]
      BY <1>3, <2>0, <3>1, <3>2, <3>3 DEF KeptInv, PrimaryTook
    <3>4. CASE result'[e][p] # result[e][p]
      <4>1. TrueReport(e, p)  BY <2>0, <2>3, <3>4 DEF Reports
      <4>2. PrimaryTook(e)' => Wanted(edit[e].op, PrimaryStore(e))
        BY <1>3, <2>0, <4>1, UnchangedIsWanted
           DEF TrueReport, PrimaryTook, PrimarySuccess, PrimaryStore, KeptInv, FollowInv
      <4> QED  BY <1>3, <2>0, <3>1, <3>2, <4>2 DEF KeptInv
    <3> QED  BY <3>3, <3>4
  <2> QED  BY <1>3, <2>1, <2>2, <2>3 DEF Proceeds
<1> QED  BY <1>1, <1>2, <1>3, AloneProceeds

\* What holds between the edits' steps, of every edit.
Held(e) == FollowInv(e) /\ Secluded(e) /\ KeptInv(e)

LEMMA AloneInit == Init => \A e \in Edits : Held(e)
<1>1. ASSUME Init, NEW e \in Edits PROVE ~note[e].alone  BY <1>1 DEF Init
<1> QED  BY <1>1, FollowInit DEF Held, Secluded, KeptInv

LEMMA HeldStep ==
    ASSUME TypeOK, SurvivalInv, \A e \in Edits : Held(e), [Next]_vars
    PROVE  \A e \in Edits : Held(e)'
BY FollowStep, SecludedStep, KeptStep DEF Held, SurvivalInv

\* While no other edit runs, what the primary confirmed is what it holds, whatever
\* order its peers answer in, share its database or are late.
THEOREM ConfirmedStays == Spec => []ConfirmedIsKept
<1> DEFINE Inv == TypeOK /\ SurvivalInv /\ \A e \in Edits : Held(e)
<1>1. Init => Inv  BY InitType, SurvivalInit, AloneInit
<1>2. Inv /\ [Next]_vars => Inv'  BY TypeStep, SurvivalStep, HeldStep
<1>3. Inv => ConfirmedIsKept  BY DEF Held, KeptInv, ConfirmedIsKept, PrimaryStore
<1> QED  BY <1>1, <1>2, <1>3, PTL DEF Spec
------------------------------------------------------------------------------
(* Databases that were in step                                              *)

Lacks(op, rrset) == op.kind \in {"update", "delete"} /\ op.old \notin rrset

LEMMA PayloadTwice ==
    ASSUME NEW op \in Operations, NEW X
    PROVE  Payload(op, Payload(op, X)) = Payload(op, X)
BY OperationType DEF Payload, Kinds

LEMMA PayloadModeA ==
    ASSUME NEW op \in Operations, NEW X, ModeA(op) PROVE Payload(op, {}) = Payload(op, X)
BY DEF Payload, ModeA

LEMMA UnchangedPayload ==
    ASSUME NEW op \in Operations, NEW X \in SUBSET Values, Unchanged(op, X)
    PROVE  Payload(op, X) = X
BY DEF Payload, Unchanged

\* Every database held X when the edit began, and holds X or what the edit makes of X.
\* A server has it from the moment it applied the PATCH or was reported as written; one
\* without the old value cannot be the reason that an edit does nothing at the others.
Stepwise(e, X) ==
    LET op == edit[e].op  Y == Payload(op, X) IN
    /\ \A b \in Hosts : store[b] \in {X, Y}
    /\ \A s \in Servers : Backend[s] \in Hosts =>
          /\ wire[e][s].state # "none" => wire[e][s].rrset = Y
          /\ wire[e][s].state = "applied" => store[Backend[s]] = Y
          /\ result[e][s] \in PrimarySuccess => store[Backend[s]] = Y
          /\ result[e][s] = "no_match" => store[Backend[s]] = Y \/ Lacks(op, X)
          /\ result[e][s] # "zone_missing"
    /\ Lacks(op, X) => /\ ~PrimaryTook(e) /\ \A b \in Hosts : store[b] = X
                       /\ \A s \in Servers : wire[e][s].state = "none"

SyncInv(e) == note[e].alone /\ note[e].synced => \E X \in SUBSET Values : Stepwise(e, X)

LEMMA StepwiseStep ==
    ASSUME TypeOK, NEW e \in Edits, Proceeds(e), NEW X \in SUBSET Values, Stepwise(e, X)
    PROVE  Stepwise(e, X)'
<1> DEFINE op == edit[e].op
           Y  == Payload(op, X)
<1>0. /\ edit'[e].op = op /\ edit'[e].primary = edit[e].primary
      /\ op \in Operations /\ edit[e].primary \in Servers
      /\ store \in [Backends -> SUBSET Values]
  BY TableTypes DEF Proceeds, TypeOK
<1>1. /\ \A b \in Hosts : store[b] \in {X, Y}
      /\ \A s \in Servers : Backend[s] \in Hosts =>
            /\ wire[e][s].state # "none" => wire[e][s].rrset = Y
            /\ wire[e][s].state = "applied" => store[Backend[s]] = Y
            /\ result[e][s] \in PrimarySuccess => store[Backend[s]] = Y
            /\ result[e][s] = "no_match" => store[Backend[s]] = Y \/ Lacks(op, X)
            /\ result[e][s] # "zone_missing"
      /\ Lacks(op, X) => /\ ~PrimaryTook(e) /\ \A b \in Hosts : store[b] = X
                         /\ \A s \in Servers : wire[e][s].state = "none"
  BY DEF Stepwise
<1>2. Payload(op, Y) = Y  BY <1>0, PayloadTwice
<1> HIDE DEF Y
<1>3. SUFFICES
        /\ \A b \in Hosts : store'[b] \in {X, Y}
        /\ \A s \in Servers : Backend[s] \in Hosts =>
              /\ wire'[e][s].state # "none" => wire'[e][s].rrset = Y
              /\ wire'[e][s].state = "applied" => store'[Backend[s]] = Y
              /\ result'[e][s] \in PrimarySuccess => store'[Backend[s]] = Y
              /\ result'[e][s] = "no_match" => store'[Backend[s]] = Y \/ Lacks(op, X)
              /\ result'[e][s] # "zone_missing"
        /\ Lacks(op, X) => /\ ~PrimaryTook(e)' /\ \A b \in Hosts : store'[b] = X
                           /\ \A s \in Servers : wire'[e][s].state = "none"
  BY <1>0 DEF Stepwise, Y
<1>4. CASE Sends(e)
  <2>1. PICK s0 \in Servers :
           /\ \A t \in Servers \ {s0} : wire'[e][t] = wire[e][t]
           /\ wire'[e][s0].state = "waiting"
           /\ \/ ModeA(op) /\ wire'[e][s0].rrset = Payload(op, {})
              \/ /\ Backend[s0] \in Hosts /\ Matches(op, store[Backend[s0]])
                 /\ wire'[e][s0].rrset = Payload(op, store[Backend[s0]])
    BY <1>4 DEF Sends
  <2>2. store' = store /\ result'[e] = result[e]  BY <1>4 DEF Sends
  <2>3. Backend[s0] \in Hosts => wire'[e][s0].rrset = Y
    BY <1>0, <1>1, <1>2, <2>1, PayloadModeA DEF Y
  <2>4. ~Lacks(op, X)
    BY <1>1, <2>1 DEF Lacks, Matches, ModeA
  <2> QED  BY <1>1, <2>1, <2>2, <2>3, <2>4
<1>5. CASE Lands(e)
  <2>1. PICK s0 \in Servers :
           /\ Backend[s0] \in Hosts /\ wire[e][s0].state = "waiting"
           /\ store' = [store EXCEPT ![Backend[s0]] = wire[e][s0].rrset]
           /\ \A t \in Servers \ {s0} : wire'[e][t] = wire[e][t]
           /\ wire'[e][s0].state = "applied" /\ wire'[e][s0].rrset = wire[e][s0].rrset
    BY <1>5 DEF Lands
  <2>2. wire[e][s0].rrset = Y  BY <1>1, <2>1
  <2>3. \A b \in Backends : store'[b] = IF b = Backend[s0] THEN Y ELSE store[b]
    BY <1>0, <2>1, <2>2
  <2>4. result'[e] = result[e]  BY <1>5 DEF Lands
  <2>5. ~Lacks(op, X)  BY <1>1, <2>1
  <2> QED  BY <1>1, <2>1, <2>2, <2>3, <2>4, <2>5
<1>6. CASE Reports(e)
  <2>1. /\ store' = store
        /\ \A s \in Servers :
              /\ wire'[e][s].rrset = wire[e][s].rrset
              /\ (wire'[e][s].state # "none") <=> (wire[e][s].state # "none")
              /\ wire'[e][s].state = "applied" => wire[e][s].state = "applied"
              /\ result'[e][s] # result[e][s] => TrueReport(e, s)
    BY <1>6 DEF Reports
  <2>2. ASSUME NEW s \in Servers, Backend[s] \in Hosts
        PROVE  /\ result'[e][s] \in PrimarySuccess => store[Backend[s]] = Y
               /\ result'[e][s] = "no_match" => store[Backend[s]] = Y \/ Lacks(op, X)
               /\ result'[e][s] # "zone_missing"
    <3>1. CASE result'[e][s] = result[e][s]  BY <1>1, <2>2, <3>1
    <3>2. CASE TrueReport(e, s)
      <4>1. store[Backend[s]] \in {X, Y} /\ Y \in SUBSET Values
        BY <1>0, <1>1, <2>2, PayloadType DEF Y
      <4>2. Unchanged(op, store[Backend[s]]) => store[Backend[s]] = Y
        BY <1>0, <4>1, UnchangedPayload DEF Y
      <4>3. ~Matches(op, store[Backend[s]]) => store[Backend[s]] = Y \/ Lacks(op, X)
        BY <4>1 DEF Matches, Lacks
      <4>4. result'[e][s] \in PrimarySuccess => store[Backend[s]] = Y
        BY <1>1, <2>2, <3>2, <4>2 DEF TrueReport, PrimarySuccess
      <4> QED  BY <2>2, <3>2, <4>3, <4>4 DEF TrueReport
    <3> QED  BY <2>1, <3>1, <3>2
  <2>3. ASSUME Lacks(op, X) PROVE ~PrimaryTook(e)'
    <3> DEFINE p == edit[e].primary
    <3>1. ~PrimaryTook(e) /\ wire[e][p].state = "none"  BY <1>0, <1>1, <2>3
    <3>2. CASE result'[e][p] = result[e][p]  BY <1>0, <3>1, <3>2 DEF PrimaryTook
    <3>3. CASE TrueReport(e, p)
      BY <1>0, <2>3, <3>1, <3>3 DEF TrueReport, PrimaryTook, PrimarySuccess, Lacks, Unchanged
    <3> QED  BY <1>0, <2>1, <3>2, <3>3
  <2> QED  BY <1>1, <2>1, <2>2, <2>3
<1> QED  BY <1>4, <1>5, <1>6 DEF Proceeds

LEMMA SyncStep ==
    ASSUME TypeOK, NEW e \in Edits, Pristine(e), FollowInv(e), Secluded(e), SyncInv(e), [Next]_vars
    PROVE  SyncInv(e)'
<1>1. SUFFICES ASSUME note'[e].alone, note'[e].synced
               PROVE  \E X \in SUBSET Values : Stepwise(e, X)'
  BY DEF SyncInv
<1>2. ASSUME NEW op \in Operations, NEW p \in Servers, Begin(e, op, p)
      PROVE  \E X \in SUBSET Values : Stepwise(e, X)'
  <2>1. \A s \in Servers : wire'[e][s].state = "none" /\ result'[e][s] = "none"
    BY <1>2 DEF Begin, Pristine
  <2>2. InSync /\ store' = store  BY <1>1, <1>2 DEF Begin, TypeOK, Note
  <2>3. PICK X \in SUBSET Values : \A b \in Hosts : store[b] = X
    <3>1. CASE Hosts = {}  BY <3>1
    <3>2. CASE Hosts # {}  BY <2>2, <3>2 DEF InSync, TypeOK
    <3> QED  BY <3>1, <3>2
  <2>4. edit'[e].primary \in Servers  BY TypeStep, TableTypes DEF TypeOK, Edit
  <2>5. ~PrimaryTook(e)'  BY <2>1, <2>4 DEF PrimaryTook, PrimarySuccess
  <2>6. Stepwise(e, X)'  BY <2>1, <2>2, <2>3, <2>5 DEF Stepwise, PrimarySuccess
  <2> QED  BY <2>6
<1>3. CASE note[e].alone /\ note'[e].synced = note[e].synced /\ Proceeds(e)
  <2>1. PICK X \in SUBSET Values : Stepwise(e, X)  BY <1>1, <1>3 DEF SyncInv
  <2> QED  BY <1>3, <2>1, StepwiseStep
<1> QED  BY <1>1, <1>2, <1>3, AloneProceeds

\* Every server that reports no error has the primary's change.
LEMMA SyncedInStep ==
    ASSUME TypeOK, \A e \in Edits : SyncInv(e) PROVE SyncedStaySynced
<1>1. SUFFICES ASSUME NEW e \in Edits, note[e].alone, note[e].synced, PrimaryTook(e),
                      \A s \in Servers : result[e][s] \in Unfailed
               PROVE  InSync
  BY DEF SyncedStaySynced
<1>2. PICK X \in SUBSET Values : Stepwise(e, X)  BY <1>1 DEF SyncInv
<1>3. ~Lacks(edit[e].op, X)  BY <1>1, <1>2 DEF Stepwise
<1>4. ASSUME NEW b \in Hosts PROVE store[b] = Payload(edit[e].op, X)
  <2>1. PICK s \in Servers : Backend[s] = b  BY HostsAssumption
  <2>2. result[e][s] \in Unfailed \ {"zone_missing"}  BY <1>1, <1>2, <2>1 DEF Stepwise
  <2> QED  BY <1>2, <1>3, <2>1, <2>2 DEF Stepwise, Unfailed, PrimarySuccess
<1> QED  BY <1>4 DEF InSync

\* Separate databases that were in step are in step after an edit that had no other
\* beside it and reports no error, for every kind of edit and whatever came late.
THEOREM BackendsStaySynced == Spec => []SyncedStaySynced
<1> DEFINE Inv == TypeOK /\ SurvivalInv /\ \A e \in Edits : Held(e) /\ SyncInv(e)
<1>1. Init => Inv
  <2>1. ASSUME Init, NEW e \in Edits PROVE SyncInv(e)  BY <2>1 DEF Init, SyncInv
  <2> QED  BY <2>1, InitType, SurvivalInit, AloneInit
<1>2. Inv /\ [Next]_vars => Inv'
  <2>1. ASSUME Inv, [Next]_vars, NEW e \in Edits PROVE SyncInv(e)'
    BY <2>1, SyncStep DEF Held, SurvivalInv
  <2> QED  BY <2>1, TypeStep, SurvivalStep, HeldStep
<1>3. Inv => SyncedStaySynced  BY SyncedInStep
<1> QED  BY <1>1, <1>2, <1>3, PTL DEF Spec
==============================================================================
