---------------------------- MODULE BackendProofs ----------------------------
(***************************************************************************)
(* Theorems about DynDns, for any servers, addresses, updates and bounds,  *)
(* about ZoneIndex, for any readers and times, about AdminGuard, for any   *)
(* set of accounts, while transactions come one after another (with two at *)
(* a time TLC refutes them), and about MCBackend, where they stand side by *)
(* side.                                                                   *)
(***************************************************************************)
EXTENDS MCBackend, FiniteSetTheorems, TLAPS

(* An update under way.  While no other overlaps it, the row it was given is *)
(* the row there is, and only what it wrote, or tried to, has left the       *)
(* address of the last one.  It finds a change where there is one, or where a *)
(* server that decides had been left behind.                                 *)

Deciding(m) == IF m.read \ m.loaded # {} THEN m.read \ m.loaded ELSE m.read
IsChange(m, last, strays) == m.wanted # last \/ Deciding(m) \cap (m.loaded \cup strays) # {}

UnderWay ==
    \A u \in Updates :
      /\ update[u].at # "writing" =>
           update[u].written = {} /\ update[u].errored = {} /\ update[u].todo = {}
      /\ u \in alone /\ update[u].at # "idle" =>
           /\ \A v \in Updates : v # u => update[v].at = "idle"
           /\ update[u].loaded = stale
      /\ u \in alone /\ update[u].at = "writing" =>
           /\ exact /\ ~update[u].same => IsChange(update[u], latest, astray)
           /\ \A s \in update[u].read :
                store[s] = update[u].wanted \/ s \in update[u].todo \cup update[u].errored \cup astray

Touched(u) == IF update[u].at = "idle" THEN {} ELSE update[u].written \cup update[u].errored

OthersAreKnown ==
    exact => \A s \in Servers :
      store[s] = latest \/ s \in stale \cup astray \/ \E u \in Updates : s \in Touched(u)

DynInv == DynTypeOK /\ UnderWay /\ OthersAreKnown

-----------------------------------------------------------------------------
LEMMA Typed ==
    ASSUME DynInv
    PROVE  /\ wan \in Addresses /\ store \in [Servers -> Addresses] /\ latest \in Addresses
           /\ stale \subseteq Servers /\ astray \subseteq Servers /\ rowLock \subseteq Updates
           /\ update \in [Updates -> UpdateType]
           /\ \A u \in Updates : update[u].at # "idle" => update[u].wanted \in Addresses
           /\ late \subseteq Servers \X Addresses
           /\ moves \in 0..MoveBound /\ faults \in 0..FaultBound
           /\ alone \subseteq Updates /\ exact \in BOOLEAN
           /\ answer \in {"none", "good", "nochg", "911"}
BY DEF DynInv, DynTypeOK

LEMMA NoUpdateType ==
    /\ NoUpdate \in UpdateType /\ NoUpdate.at = "idle"
    /\ NoUpdate.written = {} /\ NoUpdate.errored = {} /\ NoUpdate.todo = {}
BY DEF NoUpdate, UpdateType

LEMMA DynInitInv == DynInit => DynInv
<1> SUFFICES ASSUME DynInit PROVE DynInv
    OBVIOUS
<1>1. update \in [Updates -> UpdateType] /\ \A u \in Updates : update[u] = NoUpdate
      BY NoUpdateType DEF DynInit
<1>2. store \in [Servers -> Addresses]
      BY DEF DynInit
<1>3. 0 \in 0..MoveBound /\ 0 \in 0..FaultBound
      BY DynDnsAssumption
<1>4. DynTypeOK
      BY <1>1, <1>2, <1>3, NoUpdateType DEF DynInit, DynTypeOK
<1>5. UnderWay /\ OthersAreKnown
      BY <1>1, NoUpdateType DEF DynInit, UnderWay, OthersAreKnown
<1> QED BY <1>4, <1>5 DEF DynInv

LEMMA MoveInv ==
    ASSUME DynInv, NEW a \in Addresses, Move(a)
    PROVE  DynInv'
<1>1. DynTypeOK'
      BY DynDnsAssumption DEF DynInv, DynTypeOK, Move
<1>2. UnderWay' /\ OthersAreKnown'
      BY DEF DynInv, UnderWay, IsChange, OthersAreKnown, Touched, Move
<1> QED BY <1>1, <1>2 DEF DynInv

(* A step of an update that is under way changes its own record.             *)

LEMMA UpdateInv ==
    ASSUME DynInv, NEW u \in Updates, NEW m \in UpdateType, update[u].at # "idle",
           update' = [update EXCEPT ![u] = m], m.at # "idle" => m.wanted \in Addresses,
           UNCHANGED <<wan, moves, alone>>, exact' \in BOOLEAN,
           store' \in [Servers -> Addresses], latest' \in Addresses, stale' \subseteq Servers,
           astray' \subseteq Servers, rowLock' \subseteq Updates, late' \subseteq Servers \X Addresses,
           answer' \in {"none", "good", "nochg", "911"}, faults' \in 0..FaultBound,
           m.at # "writing" => m.written = {} /\ m.errored = {} /\ m.todo = {},
           u \in alone /\ m.at # "idle" => m.loaded = stale',
           u \in alone /\ m.at = "writing" =>
             /\ exact' /\ ~m.same => IsChange(m, latest', astray')
             /\ \A s \in m.read : store'[s] = m.wanted \/ s \in m.todo \cup m.errored \cup astray',
           exact' => \A s \in Servers :
             \/ store'[s] = latest' \/ s \in stale' \cup astray'
             \/ m.at # "idle" /\ s \in m.written \cup m.errored
             \/ \E v \in Updates : v # u /\ s \in Touched(v)
    PROVE  DynInv'
<1>1. /\ update' \in [Updates -> UpdateType] /\ update'[u] = m
      /\ \A v \in Updates : v # u => update'[v] = update[v]
      BY Typed
<1>2. DynTypeOK'
      BY <1>1, Typed DEF DynInv, DynTypeOK
<1>3. UnderWay'
  <2>1. ASSUME NEW v \in Updates, v # u, v \in alone, update[v].at # "idle" PROVE FALSE
        BY <2>1 DEF DynInv, UnderWay
  <2>2. u \in alone => \A v \in Updates : v # u => update[v].at = "idle"
        BY DEF DynInv, UnderWay
  <2> QED BY <1>1, <2>1, <2>2 DEF UnderWay, DynInv
<1>4. OthersAreKnown'
  <2> SUFFICES ASSUME exact', NEW s \in Servers
               PROVE  \/ store'[s] = latest' \/ s \in stale' \cup astray'
                      \/ \E v \in Updates : s \in Touched(v)'
      BY DEF OthersAreKnown
  <2>1. ASSUME NEW v \in Updates, v # u PROVE Touched(v)' = Touched(v)
        BY <1>1, <2>1 DEF Touched
  <2>2. m.at # "idle" /\ s \in m.written \cup m.errored => s \in Touched(u)'
        BY <1>1 DEF Touched
  <2> QED BY <2>1, <2>2
<1> QED BY <1>2, <1>3, <1>4 DEF DynInv

(* What is known of a server, seen by one of the updates.                    *)

LEMMA Known ==
    ASSUME DynInv, exact, NEW u \in Updates, NEW s \in Servers
    PROVE  \/ store[s] = latest \/ s \in stale \cup astray
           \/ update[u].at # "idle" /\ s \in update[u].written \cup update[u].errored
           \/ \E v \in Updates : v # u /\ s \in Touched(v)
BY DEF DynInv, OthersAreKnown, Touched

(* Whoever began when none was open is alone with the row.                   *)

LEMMA Alone ==
    ASSUME DynInv, NEW u \in Updates, u \in alone, update[u].at # "idle"
    PROVE  update[u].loaded = stale /\ \A v \in Updates : v # u => Touched(v) = {}
BY DEF DynInv, UnderWay, Touched

LEMMA PingInv == ASSUME DynInv, NEW u \in Updates, Ping(u) PROVE DynInv'
<1> DEFINE m == [NoUpdate EXCEPT !.at = "loaded", !.wanted = wan, !.loaded = stale]
<1>1. /\ update' = [update EXCEPT ![u] = m] /\ update[u].at = "idle"
      /\ alone' = IF \A v \in Updates : update[v].at = "idle" THEN {u} ELSE {}
      /\ UNCHANGED <<wan, store, stale, rowLock, late, answer, moves, faults, latest, astray, exact>>
      BY DEF Ping
<1>2. /\ m \in UpdateType /\ m.at = "loaded" /\ m.wanted = wan /\ m.loaded = stale
      /\ m.written = {} /\ m.errored = {} /\ m.todo = {}
      BY Typed DEF NoUpdate, UpdateType
<1> HIDE DEF m
<1>3. /\ update' \in [Updates -> UpdateType] /\ update'[u] = m
      /\ \A v \in Updates : v # u => update'[v] = update[v]
      BY <1>1, <1>2, Typed
<1>4. DynTypeOK'
      BY <1>1, <1>2, <1>3, Typed DEF DynTypeOK
<1>5. UnderWay'
      BY <1>1, <1>2, <1>3 DEF DynInv, UnderWay
<1>6. \A v \in Updates : Touched(v)' = Touched(v)
      BY <1>1, <1>2, <1>3 DEF Touched
<1>7. OthersAreKnown'
      BY <1>1, <1>6 DEF DynInv, OthersAreKnown
<1> QED BY <1>4, <1>5, <1>7 DEF DynInv

LEMMA VerifyInv == ASSUME DynInv, NEW u \in Updates, verify_token(u) PROVE DynInv'
<1> DEFINE m == [update[u] EXCEPT !.at = "locked"]
<1>1. /\ update' = [update EXCEPT ![u] = m] /\ update[u].at = "loaded" /\ rowLock' = {u}
      /\ UNCHANGED <<wan, store, stale, late, answer, moves, faults, latest, astray, alone, exact>>
      BY Typed DEF verify_token
<1>2. /\ m \in UpdateType /\ m.at = "locked" /\ m.wanted = update[u].wanted /\ m.loaded = update[u].loaded
      /\ m.written = update[u].written /\ m.errored = update[u].errored /\ m.todo = update[u].todo
      BY Typed DEF UpdateType
<1> HIDE DEF m
<1>3. answer \in {"none", "good", "nochg", "911"}
      BY DEF DynInv, DynTypeOK
<1>4. /\ update[u].written = {} /\ update[u].errored = {} /\ update[u].todo = {}
      /\ u \in alone => update[u].loaded = stale
      /\ update[u].wanted \in Addresses
      BY <1>1, Typed DEF DynInv, UnderWay
<1>5. exact => \A s \in Servers : \/ store[s] = latest \/ s \in stale \cup astray
                                  \/ \E v \in Updates : v # u /\ s \in Touched(v)
      BY <1>4, Known
<1> QED BY <1>1, <1>2, <1>3, <1>4, <1>5, Typed, UpdateInv

(* What was read and deviates is to be written.                              *)

LEMMA ReadInv == ASSUME DynInv, NEW u \in Updates, ReadStates(u) PROVE DynInv'
<1>1. PICK read \in SUBSET Servers, unreachable \in SUBSET Servers, ref \in Servers :
           /\ update' = [update EXCEPT ![u] = [update[u] EXCEPT !.at = "writing", !.read = read,
                           !.unreachable = unreachable, !.same = (store[ref] = update[u].wanted),
                           !.todo = {s \in read : store[s] # update[u].wanted}]]
           /\ ref \in References(u, read)
           /\ update[u].at = "locked" /\ faults' \in 0..FaultBound
           /\ UNCHANGED <<wan, store, stale, rowLock, late, answer, moves, latest, astray, alone, exact>>
  <2> DEFINE read(missing, unreachable) == Servers \ (missing \cup unreachable)
             failing(missing, unreachable) == IF missing \cup unreachable = {} THEN 0 ELSE 1
             Reads(missing, unreachable) ==
               /\ update[u].at = "locked" /\ faults + failing(missing, unreachable) <= FaultBound
               /\ read(missing, unreachable) # {}
               /\ \E ref \in References(u, read(missing, unreachable)) :
                    update' = [update EXCEPT ![u].at = "writing", ![u].read = read(missing, unreachable),
                                 ![u].unreachable = unreachable,
                                 ![u].same = (store[ref] = update[u].wanted),
                                 ![u].todo = Deviating(u, read(missing, unreachable))]
               /\ faults' = faults + failing(missing, unreachable)
               /\ UNCHANGED <<wan, store, stale, rowLock, late, answer, moves, latest, astray, alone, exact>>
  <2>1. PICK missing \in SUBSET MayMiss : \E unreachable \in SUBSET (Servers \ missing) : Reads(missing, unreachable)
        BY Zenon DEF ReadStates
  <2>2. PICK unreachable \in SUBSET (Servers \ missing) : Reads(missing, unreachable)
        BY <2>1
  <2>3. unreachable \in SUBSET Servers /\ read(missing, unreachable) \in SUBSET Servers
        OBVIOUS
  <2> DEFINE seen == read(missing, unreachable)
  <2>4. PICK ref \in References(u, seen) :
          update' = [update EXCEPT ![u].at = "writing", ![u].read = seen,
                       ![u].unreachable = unreachable,
                       ![u].same = (store[ref] = update[u].wanted),
                       ![u].todo = {s \in seen : store[s] # update[u].wanted}]
        BY <2>2 DEF Deviating
  <2>5. faults' \in 0..FaultBound
        BY <2>2, Typed, DynDnsAssumption
  <2>6. ref \in Servers
        BY <2>3 DEF References
  <2>7. update[u].at = "locked"
        /\ UNCHANGED <<wan, store, stale, rowLock, late, answer, moves, latest, astray, alone, exact>>
        BY <2>2
  <2> HIDE DEF Reads, seen
  <2>8. update' = [update EXCEPT ![u] = [update[u] EXCEPT !.at = "writing", !.read = seen,
                       !.unreachable = unreachable,
                       !.same = (store[ref] = update[u].wanted),
                       !.todo = {s \in seen : store[s] # update[u].wanted}]]
        BY <2>4, Typed
  <2>9. seen \in SUBSET Servers
        BY <2>3 DEF seen
  <2> QED BY <2>3, <2>4, <2>5, <2>6, <2>7, <2>8, <2>9
<1> DEFINE same == (store[ref] = update[u].wanted)
           m == [update[u] EXCEPT !.at = "writing", !.read = read,
                   !.unreachable = unreachable, !.same = same,
                   !.todo = {s \in read : store[s] # update[u].wanted}]
<1>2. update' = [update EXCEPT ![u] = m]
      BY <1>1
<1>3. /\ m \in UpdateType /\ m.at = "writing" /\ m.wanted = update[u].wanted /\ m.loaded = update[u].loaded
      /\ m.read = read /\ m.unreachable = unreachable /\ m.todo = {s \in read : store[s] # update[u].wanted}
      /\ m.written = update[u].written /\ m.errored = update[u].errored /\ m.same = same
      BY Typed DEF UpdateType
<1>4. answer \in {"none", "good", "nochg", "911"}
      BY DEF DynInv, DynTypeOK
<1>5. /\ u \in alone => update[u].loaded = stale /\ \A v \in Updates : v # u => Touched(v) = {}
      /\ update[u].wanted \in Addresses /\ update[u].written = {} /\ update[u].errored = {}
      BY <1>1, Alone, Typed DEF DynInv, UnderWay
<1> HIDE DEF m
<1>6. exact => \A s \in Servers : \/ store[s] = latest \/ s \in stale \cup astray
                                  \/ \E v \in Updates : v # u /\ s \in Touched(v)
      BY <1>5, Known
<1>7. \A s \in m.read : store[s] = m.wanted \/ s \in m.todo
      BY <1>3
<1>8. u \in alone /\ exact /\ ~m.same => IsChange(m, latest', astray')
  <2> SUFFICES ASSUME u \in alone, exact, store[ref] # update[u].wanted, update[u].wanted = latest
               PROVE  Deciding(m) \cap (m.loaded \cup astray) # {}
      BY <1>1, <1>3 DEF IsChange
  <2>1. ref \in stale \cup astray
        BY <1>1, <1>5, <1>6
  <2>2. ref \in Deciding(m)
        BY <1>1, <1>3 DEF References, Deciding
  <2> QED BY <2>1, <2>2, <1>3, <1>5
<1>9. /\ exact' = exact /\ update[u].at # "idle" /\ exact' \in BOOLEAN
      /\ UNCHANGED <<wan, moves, alone, store, latest, stale, astray, rowLock, late>>
      /\ answer' \in {"none", "good", "nochg", "911"} /\ faults' \in 0..FaultBound
      BY <1>1, <1>4, Typed
<1>10. u \in alone /\ m.at = "writing" =>
         /\ exact' /\ ~m.same => IsChange(m, latest', astray')
         /\ \A s \in m.read : store'[s] = m.wanted \/ s \in m.todo \cup m.errored \cup astray'
       BY <1>7, <1>8, <1>9
<1>11. m.wanted \in Addresses /\ (u \in alone => m.loaded = stale')
       BY <1>3, <1>5, <1>9
<1>12. exact' => \A s \in Servers :
         \/ store'[s] = latest' \/ s \in stale' \cup astray'
         \/ m.at # "idle" /\ s \in m.written \cup m.errored
         \/ \E v \in Updates : v # u /\ s \in Touched(v)
       BY <1>6, <1>9
<1> HIDE DEF same
<1> QED BY <1>2, <1>3, <1>9, <1>10, <1>11, <1>12, Typed, UpdateInv

(* An update that ends, or dies, leaves no record.                           *)

LEMMA EndedInv ==
    ASSUME DynInv, NEW u \in Updates, update[u].at # "idle", update' = [update EXCEPT ![u] = NoUpdate],
           UNCHANGED <<wan, moves, store, late, alone>>, exact' \in BOOLEAN,
           latest' \in Addresses, stale' \subseteq Servers, astray' \subseteq Servers, rowLock' \subseteq Updates,
           answer' \in {"none", "good", "nochg", "911"}, faults' \in 0..FaultBound,
           exact' => \A s \in Servers : \/ store[s] = latest' \/ s \in stale' \cup astray'
                                       \/ \E v \in Updates : v # u /\ s \in Touched(v)
    PROVE  DynInv'
BY NoUpdateType, Typed, UpdateInv

LEMMA NothingReadableInv == ASSUME DynInv, NEW u \in Updates, NothingReadable(u) PROVE DynInv'
<1>1. /\ update' = [update EXCEPT ![u] = NoUpdate] /\ rowLock' = {} /\ answer' = "911"
      /\ faults < FaultBound /\ faults' = faults + 1 /\ update[u].at = "locked"
      /\ UNCHANGED <<wan, store, stale, late, moves, latest, astray, alone, exact>>
      BY DEF NothingReadable
<1>2. exact => \A s \in Servers : \/ store[s] = latest \/ s \in stale \cup astray
                                  \/ \E v \in Updates : v # u /\ s \in Touched(v)
      BY <1>1, Known DEF DynInv, UnderWay
<1>3. faults' \in 0..FaultBound
      BY <1>1, Typed, DynDnsAssumption
<1> QED BY <1>1, <1>2, <1>3, Typed, EndedInv

LEMMA WritesInv ==
    ASSUME DynInv, NEW u \in Updates, NEW s \in Servers, WriteSucceeds(u, s) \/ WriteFails(u, s),
           update[u].at = "writing"
    PROVE  DynInv'
<1>0. /\ update[u] \in UpdateType /\ update[u].wanted \in Addresses
      /\ u \in alone =>
           /\ update[u].loaded = stale
           /\ exact /\ ~update[u].same => IsChange(update[u], latest, astray)
           /\ \A x \in update[u].read :
                store[x] = update[u].wanted \/ x \in update[u].todo \cup update[u].errored \cup astray
      /\ answer \in {"none", "good", "nochg", "911"}
      BY Typed DEF DynInv, UnderWay, DynTypeOK
<1>1. CASE WriteSucceeds(u, s)
  <2> DEFINE m == [update[u] EXCEPT !.todo = @ \ {s}, !.written = @ \cup {s}]
  <2>1. /\ update' = [update EXCEPT ![u] = m] /\ store' = [store EXCEPT ![s] = update[u].wanted]
        /\ UNCHANGED <<wan, stale, rowLock, late, answer, moves, faults, latest, astray, alone, exact>>
        BY <1>1, Typed DEF WriteSucceeds
  <2>2. /\ m \in UpdateType /\ m.at = "writing" /\ m.wanted = update[u].wanted /\ m.loaded = update[u].loaded
        /\ m.read = update[u].read /\ m.unreachable = update[u].unreachable
        /\ m.todo = update[u].todo \ {s} /\ m.written = update[u].written \cup {s}
        /\ m.errored = update[u].errored /\ m.same = update[u].same
        BY <1>0 DEF UpdateType
  <2>a. u \in alone /\ exact /\ ~m.same => IsChange(m, latest', astray')
        BY <1>0, <2>1, <2>2 DEF IsChange, Deciding
  <2>b. update[u].at # "idle" /\ alone' = alone /\ exact' = exact
        BY <2>1
  <2> HIDE DEF m
  <2>3. /\ store' \in [Servers -> Addresses]
        /\ \A x \in Servers : store'[x] = IF x = s THEN update[u].wanted ELSE store[x]
        BY <1>0, <2>1, Typed
  <2>4. u \in alone => \A x \in m.read : store'[x] = m.wanted \/ x \in m.todo \cup m.errored \cup astray
    <3> SUFFICES ASSUME u \in alone, NEW x \in update[u].read
                 PROVE  store'[x] = update[u].wanted \/ x \in m.todo \cup m.errored \cup astray
        BY <2>2
    <3>1. store[x] = update[u].wanted \/ x \in update[u].todo \cup update[u].errored \cup astray
          BY <1>0
    <3>2. x \in Servers
          BY <1>0 DEF UpdateType
    <3> QED BY <3>1, <3>2, <2>2, <2>3
  <2>5. exact => \A x \in Servers : \/ store'[x] = latest \/ x \in stale \cup astray
                                    \/ x \in m.written \cup m.errored
                                    \/ \E v \in Updates : v # u /\ x \in Touched(v)
        BY <2>2, <2>3, Known
  <2>7. u \in alone /\ m.at = "writing" =>
          /\ exact' /\ ~m.same => IsChange(m, latest', astray')
          /\ \A x \in m.read : store'[x] = m.wanted \/ x \in m.todo \cup m.errored \cup astray'
        BY <2>1, <2>4, <2>a, <2>b
  <2>8. exact' => \A x \in Servers :
          \/ store'[x] = latest' \/ x \in stale' \cup astray'
          \/ m.at # "idle" /\ x \in m.written \cup m.errored
          \/ \E v \in Updates : v # u /\ x \in Touched(v)
        BY <2>1, <2>2, <2>5, <2>b
  <2>9. /\ m.wanted \in Addresses /\ (u \in alone => m.loaded = stale') /\ exact' \in BOOLEAN
        /\ latest' \in Addresses /\ stale' \subseteq Servers /\ astray' \subseteq Servers
        /\ rowLock' \subseteq Updates /\ late' \subseteq Servers \X Addresses
        /\ faults' \in 0..FaultBound /\ answer' \in {"none", "good", "nochg", "911"}
        /\ UNCHANGED <<wan, moves, alone>>
        BY <1>0, <2>1, <2>2, <2>b, Typed
  <2> QED BY <2>1, <2>2, <2>3, <2>7, <2>8, <2>9, <2>b, UpdateInv
<1>2. CASE WriteFails(u, s)
  <2> DEFINE m == [update[u] EXCEPT !.todo = @ \ {s}, !.errored = @ \cup {s}]
  <2>1. /\ update' = [update EXCEPT ![u] = m]
        /\ store' = store \/ store' = [store EXCEPT ![s] = update[u].wanted]
        /\ late' = late \/ late' = late \cup {<<s, update[u].wanted>>}
        /\ faults < FaultBound /\ faults' = faults + 1
        /\ UNCHANGED <<wan, stale, rowLock, answer, moves, latest, astray, alone, exact>>
        BY <1>2, Typed DEF WriteFails
  <2>2. /\ m \in UpdateType /\ m.at = "writing" /\ m.wanted = update[u].wanted /\ m.loaded = update[u].loaded
        /\ m.read = update[u].read /\ m.unreachable = update[u].unreachable
        /\ m.todo = update[u].todo \ {s} /\ m.written = update[u].written
        /\ m.errored = update[u].errored \cup {s} /\ m.same = update[u].same
        BY <1>0 DEF UpdateType
  <2>a. u \in alone /\ exact /\ ~m.same => IsChange(m, latest', astray')
        BY <1>0, <2>1, <2>2 DEF IsChange, Deciding
  <2>b. update[u].at # "idle" /\ alone' = alone /\ exact' = exact
        BY <2>1
  <2> HIDE DEF m
  <2>3. /\ store' \in [Servers -> Addresses]
        /\ \A x \in Servers : x # s => store'[x] = store[x]
        BY <1>0, <2>1, Typed
  <2>4. u \in alone => \A x \in m.read : store'[x] = m.wanted \/ x \in m.todo \cup m.errored \cup astray
    <3> SUFFICES ASSUME u \in alone, NEW x \in update[u].read
                 PROVE  store'[x] = update[u].wanted \/ x \in m.todo \cup m.errored \cup astray
        BY <2>2
    <3>1. store[x] = update[u].wanted \/ x \in update[u].todo \cup update[u].errored \cup astray
          BY <1>0
    <3>2. x \in Servers
          BY <1>0 DEF UpdateType
    <3> QED BY <3>1, <3>2, <2>2, <2>3
  <2>5. exact => \A x \in Servers : \/ store'[x] = latest \/ x \in stale \cup astray
                                    \/ x \in m.written \cup m.errored
                                    \/ \E v \in Updates : v # u /\ x \in Touched(v)
        BY <2>2, <2>3, Known
  <2>6. late' \subseteq Servers \X Addresses /\ faults' \in 0..FaultBound
        BY <1>0, <2>1, Typed, DynDnsAssumption
  <2>7. u \in alone /\ m.at = "writing" =>
          /\ exact' /\ ~m.same => IsChange(m, latest', astray')
          /\ \A x \in m.read : store'[x] = m.wanted \/ x \in m.todo \cup m.errored \cup astray'
        BY <2>1, <2>4, <2>a, <2>b
  <2>8. exact' => \A x \in Servers :
          \/ store'[x] = latest' \/ x \in stale' \cup astray'
          \/ m.at # "idle" /\ x \in m.written \cup m.errored
          \/ \E v \in Updates : v # u /\ x \in Touched(v)
        BY <2>1, <2>2, <2>5, <2>b
  <2>9. /\ m.wanted \in Addresses /\ (u \in alone => m.loaded = stale') /\ exact' \in BOOLEAN
        /\ latest' \in Addresses /\ stale' \subseteq Servers /\ astray' \subseteq Servers
        /\ rowLock' \subseteq Updates /\ late' \subseteq Servers \X Addresses
        /\ faults' \in 0..FaultBound /\ answer' \in {"none", "good", "nochg", "911"}
        /\ UNCHANGED <<wan, moves, alone>>
        BY <1>0, <2>1, <2>2, <2>b, <2>6, Typed
  <2> QED BY <2>1, <2>2, <2>3, <2>7, <2>8, <2>9, <2>b, UpdateInv
<1> QED BY <1>1, <1>2

LEMMA FinishInv == ASSUME DynInv, NEW u \in Updates, Finish(u) PROVE DynInv'
<1> DEFINE new == update[u].unreachable \cup update[u].errored
           missing == Servers \ (update[u].read \cup update[u].unreachable)
<1>1. /\ update[u].at = "writing" /\ update[u].todo = {}
      /\ latest' = update[u].wanted /\ rowLock' = {} /\ update' = [update EXCEPT ![u] = NoUpdate]
      /\ astray' = {s \in astray \cup missing : store[s] # update[u].wanted}
      /\ stale' = IF new = update[u].loaded THEN stale ELSE new
      /\ answer' = Answer(u) /\ exact' = (u \in alone)
      /\ UNCHANGED <<wan, store, late, moves, faults, alone>>
      BY DEF Finish, set_stale
<1>2. new \subseteq Servers /\ missing \subseteq Servers /\ update[u].wanted \in Addresses
      BY <1>1, Typed DEF UpdateType
<1>3. exact' => \A s \in Servers : store[s] = latest' \/ s \in stale' \cup astray'
  <2> SUFFICES ASSUME u \in alone, NEW s \in Servers PROVE store[s] = latest' \/ s \in stale' \cup astray'
      BY <1>1
  <2>1. stale' = new
        BY <1>1, Alone
  <2>2. s \in update[u].read => store[s] = update[u].wanted \/ s \in update[u].errored \cup astray
        BY <1>1 DEF DynInv, UnderWay
  <2> QED BY <1>1, <2>1, <2>2
<1>4. answer' \in {"none", "good", "nochg", "911"}
      BY <1>1 DEF Answer
<1>5. stale' \subseteq Servers /\ astray' \subseteq Servers
      BY <1>1, <1>2, Typed
<1>6. exact' \in BOOLEAN /\ astray' \subseteq Servers /\ rowLock' \subseteq Updates
      /\ latest' \in Addresses /\ faults' \in 0..FaultBound
      /\ UNCHANGED <<wan, moves, store, late, alone>> /\ update[u].at # "idle"
      BY <1>1, <1>2, <1>5, Typed
<1>7. update' = [update EXCEPT ![u] = NoUpdate]
      BY <1>1
<1> HIDE DEF new, missing
<1> QED BY <1>3, <1>4, <1>5, <1>6, <1>7, EndedInv

LEMMA DieInv == ASSUME DynInv, NEW u \in Updates, Die(u) PROVE DynInv'
<1>1. /\ astray' = astray \cup update[u].written \cup update[u].errored /\ update[u].at # "idle"
      /\ rowLock' = rowLock \ {u} /\ update' = [update EXCEPT ![u] = NoUpdate]
      /\ faults < FaultBound /\ faults' = faults + 1
      /\ UNCHANGED <<wan, store, stale, late, answer, moves, latest, alone, exact>>
      BY DEF Die
<1>2. exact => \A s \in Servers : \/ store[s] = latest \/ s \in stale \cup astray'
                                  \/ \E v \in Updates : v # u /\ s \in Touched(v)
      BY <1>1, Known
<1>3. update[u].written \subseteq Servers /\ update[u].errored \subseteq Servers
      BY Typed DEF UpdateType
<1>4. faults' \in 0..FaultBound /\ answer' \in {"none", "good", "nochg", "911"}
      BY <1>1, Typed, DynDnsAssumption DEF DynInv, DynTypeOK
<1> QED BY <1>1, <1>2, <1>3, <1>4, Typed, EndedInv

LEMMA ApplyLateInv == ASSUME DynInv, NEW p \in late, ApplyLate(p) PROVE DynInv'
<1>1. p[1] \in Servers /\ p[2] \in Addresses
      BY Typed
<1>2. /\ store' \in [Servers -> Addresses] /\ astray \subseteq astray' /\ astray' \subseteq Servers
      /\ \A s \in Servers : store'[s] = store[s] \/ s \in astray'
      BY <1>1, Typed DEF ApplyLate
<1>3. late' \subseteq late /\ UNCHANGED <<wan, stale, rowLock, update, answer, moves, faults, latest, alone, exact>>
      BY DEF ApplyLate
<1>4. DynTypeOK'
      BY <1>2, <1>3 DEF DynInv, DynTypeOK
<1>5. UnderWay'
  <2>1. \A u \in Updates : update[u].read \subseteq Servers
        BY Typed DEF UpdateType
  <2> QED BY <1>2, <1>3, <2>1 DEF DynInv, UnderWay, IsChange
<1>6. OthersAreKnown'
      BY <1>2, <1>3 DEF DynInv, OthersAreKnown, Touched
<1> QED BY <1>4, <1>5, <1>6 DEF DynInv

LEMMA DynNextInv ==
    ASSUME DynInv, [DynNext]_dynVars
    PROVE  DynInv'
<1>1. ASSUME NEW u \in Updates, UpdateStep(u) PROVE DynInv'
  <2>1. ASSUME NEW s \in Servers, WriteSucceeds(u, s) \/ WriteFails(u, s) PROVE DynInv'
    <3>1. s \in update[u].todo
          BY <2>1 DEF WriteSucceeds, WriteFails
    <3>2. update[u].at = "writing"
          BY <3>1 DEF DynInv, UnderWay
    <3> QED BY <2>1, <3>2, WritesInv
  <2> QED BY <1>1, <2>1, VerifyInv, ReadInv, NothingReadableInv, FinishInv DEF UpdateStep
<1>2. CASE DynNext
      BY <1>1, <1>2, MoveInv, PingInv, DieInv, ApplyLateInv DEF DynNext
<1>3. CASE UNCHANGED dynVars
      BY <1>3 DEF dynVars, DynInv, DynTypeOK, UnderWay, IsChange, OthersAreKnown, Touched
<1> QED BY <1>2, <1>3

LEMMA DynInvariant == DynSpec => []DynInv
<1>1. DynInit => DynInv
      BY DynInitInv
<1>2. DynInv /\ [DynNext]_dynVars => DynInv'
      BY DynNextInv
<1> QED BY <1>1, <1>2, PTL DEF DynSpec

(* Type correctness of the servers, the remembered ones and the updates of  *)
(* a token, for any servers, addresses and bounds.                          *)

THEOREM DynTypeCorrect == DynSpec => []DynTypeOK
<1>1. DynInv => DynTypeOK
      BY DEF DynInv
<1> QED BY <1>1, DynInvariant, PTL

(* Between updates every server holds the address of the last one or is     *)
(* remembered for the next (dyndns.py, set_stale), whatever answers were    *)
(* lost, unless another update overlapped the last one, the index lacked    *)
(* the server, or a PATCH reached it whose update was gone.                 *)

THEOREM NoServerIsForgotten == DynSpec => []DeviatingIsRemembered
<1>1. DynInv => DeviatingIsRemembered
      BY DEF DynInv, OthersAreKnown, Touched, DeviatingIsRemembered
<1> QED BY <1>1, DynInvariant, PTL

(* An update that only repairs servers, while one that is neither stale nor *)
(* astray holds the address, is not answered "good": a client never takes a *)
(* repair for a change of its address.                                      *)

THEOREM RepairsAreNotReported == DynSpec => RepairIsNoChange
<1>1. DynInv => \A u \in Updates :
        /\ Finish(u) /\ answer' = "good" /\ exact /\ u \in alone
        /\ References(u, update[u].read) \cap (update[u].loaded \cup astray) = {}
        => update[u].wanted # latest
  <2> SUFFICES ASSUME DynInv, NEW u \in Updates, Finish(u), answer' = "good", exact, u \in alone,
                      References(u, update[u].read) \cap (update[u].loaded \cup astray) = {}
               PROVE  update[u].wanted # latest
      OBVIOUS
  <2>1. update[u].at = "writing" /\ ~update[u].same
        BY DEF Finish, Answer
  <2>2. IsChange(update[u], latest, astray)
        BY <2>1 DEF DynInv, UnderWay
  <2>3. References(u, update[u].read) = Deciding(update[u])
        BY DEF References, Deciding
  <2> QED BY <2>2, <2>3 DEF IsChange
<1>2. DynInv /\ [DynNext]_dynVars
        => [\A u \in Updates :
              (/\ Finish(u) /\ answer' = "good" /\ exact /\ u \in alone
               /\ References(u, update[u].read) \cap (update[u].loaded \cup astray) = {})
              => update[u].wanted # latest]_dynVars
      BY <1>1
<1> QED BY <1>2, DynInvariant, PTL DEF DynSpec, RepairIsNoChange

-----------------------------------------------------------------------------
(* The zone index.                                                          *)

(* An entry: its zones were on the server at most the time of a request     *)
(* before it was stored.                                                     *)

IsFresh(e) ==
    /\ e.at <= now /\ e.value <= zones
    /\ e.value # 0 /\ e.value < zones => e.at <= replaced[e.value] + LIST_TIMEOUT

EntriesAreFresh ==
    /\ IsFresh(cache)
    /\ \A r \in Readers : reader[r].at \in {"listing", "answered"} => IsFresh(reader[r].hit)

(* A request has not passed its timeout, and what it was answered was on the *)
(* server when it started, or later.                                         *)

RequestsEnd ==
    \A r \in Readers : reader[r].at \in {"listing", "answered"} =>
      /\ reader[r].started <= now /\ now <= reader[r].started + LIST_TIMEOUT
      /\ reader[r].at = "answered" =>
           /\ reader[r].value \in 1..zones
           /\ reader[r].value < zones => reader[r].started <= replaced[reader[r].value]

ReplacedBefore == \A v \in Versions : replaced[v] <= now

IndexInv == IndexTypeOK /\ EntriesAreFresh /\ RequestsEnd /\ ReplacedBefore /\ AnswersAreRecent

ReaderType == [at : {"idle", "waiting", "listing", "answered"},
               started : 0..ClockBound, hit : EntryType, value : {0} \cup Versions]
ToldType == [failed : BOOLEAN, age : 0..ClockBound]

-----------------------------------------------------------------------------
LEMMA Bounds ==
    /\ CACHE_TTL \in Nat /\ STALE_MAX \in Nat /\ LIST_TIMEOUT \in Nat
    /\ ChangeBound \in Nat /\ ClockBound \in Nat /\ CACHE_TTL > 0
    /\ Versions \subseteq Nat /\ 0..ClockBound \subseteq Nat
    /\ \A v \in {0} \cup Versions : v \in Nat /\ (v = 0 \/ v \in Versions)
BY ZoneIndexAssumption DEF Versions

LEMMA IndexTyped ==
    ASSUME IndexInv
    PROVE  /\ now \in 0..ClockBound /\ now \in Nat /\ zones \in Versions /\ zones \in Nat
           /\ replaced \in [Versions -> 0..ClockBound]
           /\ cache \in EntryType /\ indexLock \in Readers \cup {Free}
           /\ reader \in [Readers -> ReaderType] /\ told \in ToldType
BY Bounds DEF IndexInv, IndexTypeOK, ReaderType, ToldType

LEMMA Nothing ==
    /\ NoEntry \in EntryType /\ NoEntry.at = 0 /\ NoEntry.value = 0
    /\ Resting \in ReaderType /\ Resting.at = "idle"
    /\ NoAnswer \in ToldType /\ ~NoAnswer.failed /\ NoAnswer.age < CACHE_TTL + LIST_TIMEOUT
BY Bounds DEF NoEntry, Resting, NoAnswer, EntryType, ReaderType, ToldType

LEMMA IndexInitInv == IndexInit => IndexInv
<1> SUFFICES ASSUME IndexInit PROVE IndexInv
    OBVIOUS
<1>1. 1 \in Versions /\ 0 \in 0..ClockBound
      BY Bounds DEF Versions
<1>2. reader \in [Readers -> ReaderType] /\ \A r \in Readers : reader[r].at = "idle"
      BY Nothing DEF IndexInit
<1>3. IndexTypeOK
      BY <1>1, <1>2, Nothing DEF IndexInit, IndexTypeOK, ReaderType, ToldType
<1>4. EntriesAreFresh /\ RequestsEnd /\ ReplacedBefore
      BY <1>2, Nothing DEF IndexInit, EntriesAreFresh, IsFresh, RequestsEnd, ReplacedBefore
<1>5. AnswersAreRecent
      BY Nothing, Bounds DEF IndexInit, AnswersAreRecent
<1> QED BY <1>3, <1>4, <1>5 DEF IndexInv

(* A step that answers nothing keeps the promise about answers.              *)

LEMMA SilentInv ==
    ASSUME IndexTypeOK', EntriesAreFresh', RequestsEnd', ReplacedBefore', told' = NoAnswer
    PROVE  IndexInv'
<1>1. AnswersAreRecent'
      BY Nothing, Bounds DEF AnswersAreRecent
<1> QED BY <1>1 DEF IndexInv

LEMMA TickInv == ASSUME IndexInv, Tick PROVE IndexInv'
<1>1. /\ now' = now + 1 /\ now' \in 0..ClockBound /\ told' = NoAnswer
      /\ UNCHANGED <<zones, replaced, cache, indexLock, reader>>
      BY IndexTyped, Bounds DEF Tick
<1>2. IndexTypeOK'
      BY <1>1, IndexTyped, Nothing DEF IndexTypeOK, ReaderType, ToldType
<1>3. EntriesAreFresh'
  <2>1. ASSUME NEW e \in EntryType, IsFresh(e) PROVE IsFresh(e)'
        BY <1>1, <2>1, IndexTyped, Bounds DEF IsFresh, EntryType
  <2>2. \A r \in Readers : reader[r].hit \in EntryType
        BY IndexTyped DEF ReaderType
  <2> QED BY <1>1, <2>1, <2>2, IndexTyped DEF EntriesAreFresh, IndexInv
<1>4. RequestsEnd'
  <2> SUFFICES ASSUME NEW r \in Readers, reader[r].at \in {"listing", "answered"}
               PROVE  reader[r].started <= now + 1 /\ now + 1 <= reader[r].started + LIST_TIMEOUT
      BY <1>1 DEF IndexInv, RequestsEnd
  <2>1. now < reader[r].started + LIST_TIMEOUT /\ reader[r].started <= now
        BY DEF Tick, IndexInv, RequestsEnd
  <2>2. reader[r].started \in Nat
        BY IndexTyped, Bounds DEF ReaderType
  <2> QED BY <2>1, <2>2, IndexTyped, Bounds
<1>5. ReplacedBefore'
  <2>1. \A v \in Versions : replaced[v] \in Nat
        BY IndexTyped, Bounds
  <2> QED BY <1>1, <2>1, IndexTyped DEF IndexInv, ReplacedBefore
<1> QED BY <1>1, <1>2, <1>3, <1>4, <1>5, SilentInv

(* The version that is replaced was the current one: what was fresh stays.   *)

LEMMA ChangeInv == ASSUME IndexInv, ZonesChange PROVE IndexInv'
<1>1. /\ zones' = zones + 1 /\ zones' \in Versions /\ told' = NoAnswer
      /\ replaced' = [replaced EXCEPT ![zones] = now]
      /\ UNCHANGED <<now, cache, indexLock, reader>>
      BY IndexTyped, Bounds DEF ZonesChange, Versions
<1>2. replaced' \in [Versions -> 0..ClockBound]
      /\ \A v \in Versions : replaced'[v] = IF v = zones THEN now ELSE replaced[v]
      BY <1>1, IndexTyped
<1>3. IndexTypeOK'
      BY <1>1, <1>2, IndexTyped, Nothing DEF IndexTypeOK, ReaderType, ToldType
<1>4. EntriesAreFresh'
  <2>1. ASSUME NEW e \in EntryType, IsFresh(e) PROVE IsFresh(e)'
    <3>0. e.at \in 0..ClockBound /\ e.value \in {0} \cup Versions
          BY DEF EntryType
    <3>1. e.at \in Nat /\ (e.value = 0 \/ e.value \in Versions) /\ e.value \in Nat
          BY <3>0, Bounds
    <3>2. CASE e.value = zones
          BY <3>1, <3>2, <2>1, <1>1, <1>2, IndexTyped, Bounds DEF IsFresh
    <3>3. CASE e.value # zones
          BY <3>1, <3>3, <2>1, <1>1, <1>2, IndexTyped, Bounds DEF IsFresh
    <3> QED BY <3>2, <3>3
  <2>2. \A r \in Readers : reader[r].hit \in EntryType
        BY IndexTyped DEF ReaderType
  <2> QED BY <1>1, <2>1, <2>2, IndexTyped DEF EntriesAreFresh, IndexInv
<1>5. RequestsEnd'
  <2> SUFFICES ASSUME NEW r \in Readers, reader[r].at \in {"listing", "answered"}
               PROVE  /\ reader[r].started <= now /\ now <= reader[r].started + LIST_TIMEOUT
                      /\ reader[r].at = "answered" =>
                           /\ reader[r].value \in 1..(zones + 1)
                           /\ reader[r].value < zones + 1 => reader[r].started <= replaced'[reader[r].value]
      BY <1>1 DEF RequestsEnd
  <2>0. reader[r].started \in 0..ClockBound /\ reader[r].value \in {0} \cup Versions
        BY IndexTyped DEF ReaderType
  <2>1. reader[r].started \in Nat /\ (reader[r].value = 0 \/ reader[r].value \in Versions)
        /\ reader[r].value \in Nat
        BY <2>0, Bounds
  <2> QED BY <2>1, <1>2, IndexTyped, Bounds DEF IndexInv, RequestsEnd
<1>6. ReplacedBefore'
      BY <1>1, <1>2, IndexTyped DEF IndexInv, ReplacedBefore
<1> QED BY <1>1, <1>3, <1>4, <1>5, <1>6, SilentInv

LEMMA InvalidateInv == ASSUME IndexInv, invalidate PROVE IndexInv'
<1>1. cache' = NoEntry /\ told' = NoAnswer
      /\ UNCHANGED <<now, zones, replaced, indexLock, reader>>
      BY DEF invalidate
<1>2. IndexTypeOK'
      BY <1>1, IndexTyped, Nothing DEF IndexTypeOK, ReaderType, ToldType
<1>3. EntriesAreFresh' /\ RequestsEnd' /\ ReplacedBefore'
      BY <1>1, IndexTyped, Nothing, Bounds DEF IndexInv, EntriesAreFresh, IsFresh, RequestsEnd, ReplacedBefore
<1> QED BY <1>1, <1>2, <1>3, SilentInv

(* What an answer from an entry or from the server is worth.                 *)

LEMMA ToldTyped ==
    ASSUME IndexInv, NEW v \in {0} \cup Versions, NEW failed \in BOOLEAN
    PROVE  /\ Told(v, failed) \in ToldType /\ Told(v, failed).failed = failed
           /\ v \in 1..(zones - 1) => Told(v, failed).age = now - replaced[v]
           /\ v \notin 1..(zones - 1) => Told(v, failed).age = 0
<1>1. v \in 1..(zones - 1) => now - replaced[v] \in 0..ClockBound
  <2> SUFFICES ASSUME v \in 1..(zones - 1) PROVE now - replaced[v] \in 0..ClockBound
      OBVIOUS
  <2>1. v \in Versions
        BY IndexTyped, Bounds DEF Versions
  <2>2. replaced[v] <= now /\ replaced[v] \in 0..ClockBound
        BY <2>1, IndexTyped DEF IndexInv, ReplacedBefore
  <2> QED BY <2>2, IndexTyped, Bounds
<1>2. 0 \in 0..ClockBound
      BY Bounds
<1> QED BY <1>1, <1>2 DEF Told, ToldType

LEMMA CachedAnswer ==
    ASSUME IndexInv, IsHit
    PROVE  LET t == Told(cache.value, FALSE)
           IN t \in ToldType /\ ~t.failed /\ t.age < CACHE_TTL + LIST_TIMEOUT
<1>1. /\ cache.value # 0 /\ now - cache.at < CACHE_TTL /\ cache.at \in Nat
      /\ cache.value \in {0} \cup Versions
      BY IndexTyped, Bounds DEF IsHit, EntryType
<1>2. cache.value \in 1..(zones - 1) => now - replaced[cache.value] < CACHE_TTL + LIST_TIMEOUT
  <2> SUFFICES ASSUME cache.value \in 1..(zones - 1)
               PROVE  now - replaced[cache.value] < CACHE_TTL + LIST_TIMEOUT
      OBVIOUS
  <2>1. cache.at <= replaced[cache.value] + LIST_TIMEOUT
        BY <1>1, IndexTyped, Bounds DEF IndexInv, EntriesAreFresh, IsFresh
  <2>2. replaced[cache.value] \in Nat
        BY <1>1, IndexTyped, Bounds
  <2> QED BY <1>1, <2>1, <2>2, IndexTyped, Bounds
<1> DEFINE t == Told(cache.value, FALSE)
<1>3. /\ t \in ToldType /\ ~t.failed
      /\ cache.value \in 1..(zones - 1) => t.age = now - replaced[cache.value]
      /\ cache.value \notin 1..(zones - 1) => t.age = 0
      BY <1>1, ToldTyped
<1> HIDE DEF t
<1>4. t.age < CACHE_TTL + LIST_TIMEOUT
      BY <1>2, <1>3, Bounds
<1> QED BY <1>3, <1>4 DEF t

(* Steps of a reader change its own slot, the lock and the cache.            *)

LEMMA ReaderInv ==
    ASSUME IndexInv, NEW r \in Readers, NEW m \in ReaderType,
           reader' = [reader EXCEPT ![r] = m], UNCHANGED <<now, zones, replaced>>,
           cache' \in EntryType, IsFresh(cache'), indexLock' \in Readers \cup {Free}, told' \in ToldType,
           m.at \in {"listing", "answered"} =>
             /\ IsFresh(m.hit) /\ m.started <= now /\ now <= m.started + LIST_TIMEOUT
             /\ m.at = "answered" => /\ m.value \in 1..zones
                                     /\ m.value < zones => m.started <= replaced[m.value],
           told'.age < IF told'.failed THEN STALE_MAX + 2 * LIST_TIMEOUT ELSE CACHE_TTL + LIST_TIMEOUT
    PROVE  IndexInv'
<1>1. reader' \in [Readers -> ReaderType] /\ \A q \in Readers : reader'[q] = IF q = r THEN m ELSE reader[q]
      BY IndexTyped
<1>2. IndexTypeOK'
      BY <1>1, IndexTyped DEF IndexTypeOK, ReaderType, ToldType
<1>3. EntriesAreFresh'
      BY <1>1 DEF IndexInv, EntriesAreFresh, IsFresh
<1>4. RequestsEnd'
      BY <1>1 DEF IndexInv, RequestsEnd
<1>5. ReplacedBefore' /\ AnswersAreRecent'
      BY DEF IndexInv, ReplacedBefore, AnswersAreRecent
<1> QED BY <1>2, <1>3, <1>4, <1>5 DEF IndexInv

LEMMA LookUpInv == ASSUME IndexInv, NEW r \in Readers, LookUp(r) PROVE IndexInv'
<1>1. CASE IsHit
  <2>1. told' = Told(cache.value, FALSE)
        /\ UNCHANGED <<now, zones, replaced, cache, indexLock, reader>>
        BY <1>1 DEF LookUp
  <2>2. told' \in ToldType /\ ~told'.failed /\ told'.age < CACHE_TTL + LIST_TIMEOUT
        BY <1>1, <2>1, CachedAnswer, IndexTyped
  <2>3. reader' = [reader EXCEPT ![r] = reader[r]] /\ reader[r] \in ReaderType
        BY <2>1, IndexTyped
  <2> QED BY <2>1, <2>2, <2>3, IndexTyped, ReaderInv DEF IndexInv, EntriesAreFresh, RequestsEnd
<1>2. CASE ~IsHit
  <2> DEFINE m == [Resting EXCEPT !.at = "waiting"]
  <2>1. reader' = [reader EXCEPT ![r] = m] /\ told' = NoAnswer
        /\ UNCHANGED <<now, zones, replaced, cache, indexLock>>
        BY <1>2 DEF LookUp
  <2>2. m \in ReaderType /\ m.at = "waiting"
        BY IndexTyped, Nothing DEF ReaderType
  <2> HIDE DEF m
  <2> QED BY <2>1, <2>2, IndexTyped, Nothing, Bounds, ReaderInv DEF IndexInv, EntriesAreFresh
<1> QED BY <1>1, <1>2

LEMMA EnterInv == ASSUME IndexInv, NEW r \in Readers, Enter(r) PROVE IndexInv'
<1>0. reader[r] \in ReaderType
      BY IndexTyped DEF ReaderType
<1>1. CASE IsHit
  <2>1. /\ told' = Told(cache.value, FALSE) /\ reader' = [reader EXCEPT ![r] = Resting]
        /\ UNCHANGED <<now, zones, replaced, cache, indexLock>>
        BY <1>1 DEF Enter, Returns
  <2>2. told' \in ToldType /\ ~told'.failed /\ told'.age < CACHE_TTL + LIST_TIMEOUT
        BY <1>0, <1>1, <2>1, CachedAnswer
  <2> QED BY <2>1, <2>2, IndexTyped, Nothing, ReaderInv DEF IndexInv, EntriesAreFresh
<1>2. CASE ~IsHit
  <2> DEFINE m == [reader[r] EXCEPT !.at = "listing", !.started = now, !.hit = cache]
  <2>1. /\ reader' = [reader EXCEPT ![r] = m] /\ told' = NoAnswer /\ indexLock' = r
        /\ UNCHANGED <<now, zones, replaced, cache>>
        BY <1>2, IndexTyped DEF Enter
  <2>2. m \in ReaderType /\ m.at = "listing" /\ m.hit = cache /\ m.started = now
        BY <1>0, IndexTyped DEF ReaderType
  <2> HIDE DEF m
  <2>3. IsFresh(m.hit) /\ m.started <= now /\ now <= m.started + LIST_TIMEOUT
        BY <2>2, IndexTyped, Bounds DEF IndexInv, EntriesAreFresh
  <2> QED BY <2>1, <2>2, <2>3, IndexTyped, Nothing, Bounds, ReaderInv DEF IndexInv, EntriesAreFresh
<1> QED BY <1>1, <1>2

LEMMA ListsInv == ASSUME IndexInv, NEW r \in Readers, ServerLists(r) PROVE IndexInv'
<1> DEFINE m == [reader[r] EXCEPT !.at = "answered", !.value = zones]
<1>1. /\ reader' = [reader EXCEPT ![r] = m] /\ told' = NoAnswer
      /\ UNCHANGED <<now, zones, replaced, cache, indexLock>> /\ reader[r].at = "listing"
      BY IndexTyped DEF ServerLists
<1>2. /\ m \in ReaderType /\ m.at = "answered" /\ m.value = zones
      /\ m.hit = reader[r].hit /\ m.started = reader[r].started
      BY IndexTyped DEF ReaderType
<1> HIDE DEF m
<1>3. IsFresh(m.hit) /\ m.started <= now /\ now <= m.started + LIST_TIMEOUT
      BY <1>1, <1>2 DEF IndexInv, EntriesAreFresh, RequestsEnd
<1>4. m.value \in 1..zones /\ ~(m.value < zones)
      BY <1>2, IndexTyped, Bounds DEF Versions
<1> QED BY <1>1, <1>2, <1>3, <1>4, IndexTyped, Nothing, Bounds, ReaderInv DEF IndexInv, EntriesAreFresh

LEMMA ArrivesInv == ASSUME IndexInv, NEW r \in Readers, ListArrives(r) PROVE IndexInv'
<1> DEFINE v == reader[r].value
<1>1. /\ reader' = [reader EXCEPT ![r] = Resting] /\ told' = Told(v, FALSE)
      /\ cache' = [at |-> now, value |-> v] /\ indexLock' = Free
      /\ UNCHANGED <<now, zones, replaced>> /\ reader[r].at = "answered"
      BY DEF ListArrives, Returns
<1>2. /\ reader[r].started \in Nat /\ v \in {0} \cup Versions
      BY IndexTyped, Bounds DEF ReaderType
<1>3. /\ reader[r].started <= now /\ now <= reader[r].started + LIST_TIMEOUT
      /\ v \in 1..zones
      /\ v < zones => reader[r].started <= replaced[v]
      BY <1>1 DEF IndexInv, RequestsEnd
<1> HIDE DEF v
<1>4. v \in Versions /\ v \in Nat /\ replaced[v] \in Nat
  <2>1. v # 0
        BY <1>3, IndexTyped
  <2>2. v \in Versions
        BY <1>2, <2>1
  <2> QED BY <2>2, IndexTyped, Bounds
<1>5. cache' \in EntryType /\ cache'.at = now /\ cache'.value = v
      BY <1>1, <1>4, IndexTyped DEF EntryType
<1>6. IsFresh(cache')
      BY <1>2, <1>3, <1>4, <1>5, IndexTyped, Bounds DEF IsFresh
<1>7. told' \in ToldType /\ ~told'.failed
      BY <1>1, <1>2, ToldTyped
<1>8. told'.age < CACHE_TTL + LIST_TIMEOUT
  <2>1. CASE v \in 1..(zones - 1)
    <3>1. told'.age = now - replaced[v]
          BY <1>1, <1>2, <2>1, ToldTyped
    <3>2. v < zones
          BY <2>1, IndexTyped
    <3>3. replaced[v] >= reader[r].started
          BY <1>2, <1>3, <1>4, <3>2
    <3>4. now - replaced[v] <= LIST_TIMEOUT
          BY <3>3, <1>2, <1>3, <1>4, IndexTyped, Bounds
    <3> QED BY <3>1, <3>4, <1>4, IndexTyped, Bounds
  <2>2. CASE v \notin 1..(zones - 1)
    <3>1. told'.age = 0
          BY <1>1, <1>2, <2>2, ToldTyped
    <3> QED BY <3>1, Bounds
  <2> QED BY <2>1, <2>2
<1> QED BY <1>1, <1>5, <1>6, <1>7, <1>8, Nothing, ReaderInv

LEMMA FailsInv == ASSUME IndexInv, NEW r \in Readers, ListFails(r) PROVE IndexInv'
<1> DEFINE e == reader[r].hit
           usable == e.value # 0 /\ reader[r].started - e.at < STALE_MAX
           v == IF usable THEN e.value ELSE 0
<1>1. /\ reader' = [reader EXCEPT ![r] = Resting] /\ told' = Told(v, TRUE)
      /\ indexLock' = Free /\ UNCHANGED <<now, zones, replaced, cache>>
      /\ reader[r].at \in {"listing", "answered"}
      BY DEF ListFails, Returns
<1>2. /\ reader[r].started \in Nat /\ e \in EntryType
      BY IndexTyped, Bounds DEF ReaderType
<1>3. IsFresh(e) /\ now <= reader[r].started + LIST_TIMEOUT
      BY <1>1 DEF IndexInv, EntriesAreFresh, RequestsEnd
<1>4. e.at \in Nat /\ e.value \in {0} \cup Versions /\ v \in {0} \cup Versions
      BY <1>2, Bounds DEF EntryType
<1>5. told' \in ToldType /\ told'.failed
      BY <1>1, <1>2, <1>4, ToldTyped
<1>6. told'.age < STALE_MAX + 2 * LIST_TIMEOUT
  <2>1. CASE v \in 1..(zones - 1)
    <3>0. told'.age = now - replaced[v]
          BY <1>1, <1>2, <1>4, <2>1, ToldTyped
    <3>1. told'.age = now - replaced[v] /\ v < zones /\ v # 0
          BY <3>0, <2>1, IndexTyped
    <3>2. usable /\ v = e.value
          BY <3>1
    <3>3. e.at <= replaced[v] + LIST_TIMEOUT
          BY <1>3, <3>1, <3>2 DEF IsFresh
    <3>4. replaced[v] \in Nat
          BY <1>4, <3>1, IndexTyped, Bounds
    <3> HIDE DEF e, v
    <3> QED BY <3>1, <3>2, <3>3, <3>4, <1>2, <1>3, <1>4, IndexTyped, Bounds
  <2>2. CASE v \notin 1..(zones - 1)
    <3>1. told'.age = 0
          BY <1>1, <1>2, <1>4, <2>2, ToldTyped
    <3>2. STALE_MAX > 0
          BY ZoneIndexAssumption
    <3> QED BY <3>1, <3>2, Bounds
  <2> QED BY <2>1, <2>2
<1> HIDE DEF v
<1> QED BY <1>1, <1>5, <1>6, IndexTyped, Nothing, ReaderInv DEF IndexInv, EntriesAreFresh

LEMMA IndexNextInv ==
    ASSUME IndexInv, [IndexNext]_indexVars
    PROVE  IndexInv'
<1>1. CASE IndexNext
      BY <1>1, TickInv, ChangeInv, InvalidateInv, LookUpInv, EnterInv, ListsInv, ArrivesInv, FailsInv
         DEF IndexNext, ReaderGoesOn
<1>2. CASE UNCHANGED indexVars
      BY <1>2 DEF indexVars, IndexInv, IndexTypeOK, EntriesAreFresh, IsFresh, RequestsEnd,
                  ReplacedBefore, AnswersAreRecent
<1> QED BY <1>1, <1>2

LEMMA IndexInvariant == IndexSpec => []IndexInv
<1>1. IndexInit => IndexInv
      BY IndexInitInv
<1>2. IndexInv /\ [IndexNext]_indexVars => IndexInv'
      BY IndexNextInv
<1> QED BY <1>1, <1>2, PTL DEF IndexSpec

(* Type correctness of the cached list of a server, its lock and its        *)
(* readers.                                                                 *)

THEOREM IndexTypeCorrect == IndexSpec => []IndexTypeOK
<1>1. IndexInv => IndexTypeOK
      BY DEF IndexInv
<1> QED BY <1>1, IndexInvariant, PTL

(* No reader of the zone index (zone_index.py) is given a list older than   *)
(* the age limit allows and the requests it waited for took, however many   *)
(* readers share the lock, and whether the list fails or is slow.           *)

THEOREM ZonesAreRecent == IndexSpec => []AnswersAreRecent
<1>1. IndexInv => AnswersAreRecent
      BY DEF IndexInv
<1> QED BY <1>1, IndexInvariant, PTL

------------------------------------------------------------------------------
(* The guards of the administrators                                         *)

OneAtATime == \A q, r \in Requests : q = r

(* What the account u is once the open request r has been committed.        *)

Then(r, u) == IF u = request[r].target THEN request[r].after ELSE account[u]

(* SSO is enabled by an administrator, so somebody is there; whoever the     *)
(* setup created, somebody remained.                                         *)

SomebodyThere == \E u \in Users : account[u].there = "yes"
NeedsSomebody == sso = "on" \/ founders # {} => SomebodyThere

(* An open request has read the accounts as they are, and carrying it out    *)
(* leaves an administrator, and a local one while SSO stays enabled.         *)

OpenIsSafe ==
    \A r \in Requests : request[r].open =>
      /\ request[r].before = account[request[r].target]
      /\ \E u \in Users : IsActiveAdmin(Then(r, u))
      /\ sso = "on" /\ request[r].sets \in {"keep", "on"} /\ LocalAdmins # {}
           => \E u \in Users : IsLocalAdmin(Then(r, u))
      /\ request[r].setup => founders = {}

OneFounder == \A u, v \in founders : u = v

GuardInv == GuardTypeOK /\ AdminRemains /\ NeedsSomebody /\ OpenIsSafe /\ OneFounder

-----------------------------------------------------------------------------
LEMMA MergedUnread ==
    ASSUME NEW current \in Accounts, NEW after \in Accounts
    PROVE  Merged(current, current, after) = after
<1>1. DOMAIN current = DOMAIN after
      BY DEF Accounts
<1>2. Merged(current, current, after) = [f \in DOMAIN after |-> after[f]]
      BY <1>1 DEF Merged
<1>3. after = [f \in DOMAIN after |-> after[f]]
      BY SMT DEF Accounts
<1> QED BY <1>2, <1>3

LEMMA MergedType ==
    ASSUME NEW current \in Accounts, NEW before \in Accounts, NEW after \in Accounts
    PROVE  Merged(current, before, after) \in Accounts
BY DEF Merged, Accounts

LEMMA IdleType == \A t \in Users : Idle(t) \in Pending /\ ~Idle(t).open /\ Idle(t).target = t
BY DEF Idle, Pending, NewAccount, Accounts, Roles, Sources

LEMMA GuardInitInv == GuardInit => GuardInv
<1> SUFFICES ASSUME GuardInit PROVE GuardInv
    OBVIOUS
<1> DEFINE admin == [there |-> "yes", role |-> "admin", active |-> TRUE, source |-> "local"]
<1>a. NewAccount \in Accounts /\ admin \in Accounts
      BY DEF NewAccount, Accounts, Roles, Sources
<1>1. account \in [Users -> Accounts] /\ sso \in {"on", "off"} /\ founders \subseteq Users
  <2> HIDE DEF admin
  <2>1. \/ account = [u \in Users |-> NewAccount]
        \/ \E first \in Users : account = [u \in Users |-> IF u = first THEN admin ELSE NewAccount]
        BY DEF GuardInit, admin
  <2>2. account \in [Users -> Accounts]
        BY <1>a, <2>1
  <2> QED BY <2>2 DEF GuardInit
<1>2. request \in [Requests -> Pending] /\ \A r \in Requests : ~request[r].open
  <2>1. PICK t \in Users : request = [r \in Requests |-> Idle(t)]
        BY DEF GuardInit
  <2> QED BY <2>1, IdleType
<1>3. AdminRemains
      BY DEF GuardInit, AdminRemains, ActiveAdmins, IsActiveAdmin, NewAccount
<1>4. NeedsSomebody /\ OneFounder
      BY DEF GuardInit, NeedsSomebody, OneFounder
<1> QED BY <1>1, <1>2, <1>3, <1>4 DEF GuardInv, GuardTypeOK, OpenIsSafe

(* A request that opens: the accounts stay, its own safety is what is left.  *)

SafeToOpen(t, after) ==
    /\ \E u \in Users : IsActiveAdmin(IF u = t THEN after ELSE account[u])
    /\ sso = "on" /\ LocalAdmins # {}
         => \E u \in Users : IsLocalAdmin(IF u = t THEN after ELSE account[u])

LEMMA OpenedInv ==
    ASSUME GuardInv, NEW r \in Requests, OneAtATime, NEW p \in Pending,
           request' = [request EXCEPT ![r] = p], p.before = account[p.target],
           UNCHANGED <<account, sso, founders>>,
           SafeToOpen(p.target, p.after), p.setup => founders = {}
    PROVE  GuardInv'
<1>1. request' \in [Requests -> Pending] /\ request'[r] = p
      BY DEF GuardInv, GuardTypeOK
<1>2. GuardTypeOK'
      BY <1>1 DEF GuardInv, GuardTypeOK
<1>3. AdminRemains' /\ NeedsSomebody' /\ OneFounder'
      BY DEF GuardInv, AdminRemains, NeedsSomebody, SomebodyThere, OneFounder, ActiveAdmins
<1>4. \A q \in Requests : q = r
      BY DEF OneAtATime
<1>5. OpenIsSafe'
      BY <1>1, <1>4 DEF OpenIsSafe, Then, SafeToOpen, LocalAdmins
<1> QED BY <1>2, <1>3, <1>5 DEF GuardInv

(* The form every handler but two has.                                       *)

LEMMA OpenInv ==
    ASSUME GuardInv, OneAtATime, NEW r \in Requests, NEW t \in Users, NEW after \in Accounts,
           Open(r, t, after), SafeToOpen(t, after)
    PROVE  GuardInv'
<1> DEFINE p == [Idle(t) EXCEPT !.open = TRUE, !.before = account[t], !.after = after]
<1>1. account[t] \in Accounts
      BY DEF GuardInv, GuardTypeOK
<1>2. p \in Pending /\ p.target = t /\ p.before = account[t] /\ p.after = after /\ ~p.setup
      BY <1>1 DEF Idle, Pending
<1>3. request' = [request EXCEPT ![r] = p] /\ UNCHANGED <<account, sso, founders>>
      BY DEF Open
<1> HIDE DEF p
<1> QED BY <1>2, <1>3, OpenedInv

(* The guards of user_guard.py are what makes a request safe.                *)

LEMMA GuardedIsSafe ==
    ASSUME GuardInv, NEW t \in Users, NEW after \in Accounts, ActiveAdmins # {},
           KeepsActiveAdmin(t, after), KeepsLocalAdmin(t, after)
    PROVE  SafeToOpen(t, after)
<1>1. \E u \in Users : IsActiveAdmin(IF u = t THEN after ELSE account[u])
  <2>1. CASE ActiveAdmins \ {t} # {}
        BY <2>1 DEF ActiveAdmins
  <2>2. CASE ActiveAdmins \ {t} = {}
    <3>1. IsActiveAdmin(account[t])
          BY <2>2 DEF ActiveAdmins
    <3> QED BY <3>1, <2>2 DEF KeepsActiveAdmin
  <2> QED BY <2>1, <2>2
<1>2. ASSUME sso = "on", LocalAdmins # {}
      PROVE  \E u \in Users : IsLocalAdmin(IF u = t THEN after ELSE account[u])
  <2>1. CASE LocalAdmins \ {t} # {}
        BY <2>1 DEF LocalAdmins
  <2>2. CASE LocalAdmins \ {t} = {}
    <3>1. IsLocalAdmin(account[t])
          BY <2>2, <1>2 DEF LocalAdmins
    <3> QED BY <3>1, <2>2, <1>2 DEF KeepsLocalAdmin
  <2> QED BY <2>1, <2>2
<1> QED BY <1>1, <1>2 DEF SafeToOpen

LEMMA HandlersInv ==
    ASSUME GuardInv, OneAtATime, NEW r \in Requests, NEW admin \in Users, NEW t \in Users,
           \/ create_user(r, admin, t) \/ update_user(r, admin, t) \/ delete_user(r, admin, t)
           \/ convert_user_to_local(r, admin, t)
    PROVE  GuardInv'
<1>0. account[t] \in Accounts
      BY DEF GuardInv, GuardTypeOK
<1>1. CASE create_user(r, admin, t)
  <2>1. PICK role \in Roles :
          Open(r, t, [there |-> "yes", role |-> role, active |-> TRUE, source |-> "local"])
        BY <1>1 DEF create_user
  <2> DEFINE after == [there |-> "yes", role |-> role, active |-> TRUE, source |-> "local"]
  <2>2. after \in Accounts /\ ActiveAdmins # {} /\ account[t].there = "new"
        BY <1>1 DEF create_user, Accounts, Sources
  <2>3. KeepsActiveAdmin(t, after) /\ KeepsLocalAdmin(t, after)
        BY <2>2 DEF KeepsActiveAdmin, KeepsLocalAdmin, IsLocalAdmin, IsActiveAdmin
  <2>4. SafeToOpen(t, after)
        BY <2>2, <2>3, GuardedIsSafe
  <2> QED BY <2>1, <2>2, <2>4, OpenInv
<1>2. CASE update_user(r, admin, t)
  <2>1. PICK role \in Roles, active \in BOOLEAN :
          LET after == [account[t] EXCEPT !.role = role, !.active = active]
          IN /\ ActiveAdmins # {} /\ KeepsActiveAdmin(t, after) /\ KeepsLocalAdmin(t, after)
             /\ Open(r, t, after)
        BY <1>2 DEF update_user
  <2> DEFINE after == [account[t] EXCEPT !.role = role, !.active = active]
  <2>2. after \in Accounts
        BY <1>0 DEF Accounts
  <2>3. SafeToOpen(t, after)
        BY <2>1, <2>2, GuardedIsSafe
  <2> QED BY <2>1, <2>2, <2>3, OpenInv
<1>3. CASE delete_user(r, admin, t)
  <2> DEFINE after == [account[t] EXCEPT !.there = "gone"]
  <2>1. after \in Accounts
        BY <1>0 DEF Accounts
  <2>2. ActiveAdmins \ {t} # {} /\ KeepsLocalAdmin(t, after) /\ Open(r, t, after)
        BY <1>3 DEF delete_user
  <2>3. KeepsActiveAdmin(t, after) /\ ActiveAdmins # {}
        BY <2>2 DEF KeepsActiveAdmin
  <2>4. SafeToOpen(t, after)
        BY <2>1, <2>2, <2>3, GuardedIsSafe
  <2> QED BY <2>1, <2>2, <2>4, OpenInv
<1>4. CASE convert_user_to_local(r, admin, t)
  <2> DEFINE after == [account[t] EXCEPT !.source = "local"]
  <2>1. after \in Accounts
        BY <1>0 DEF Accounts, Sources
  <2>2. ActiveAdmins \ {t} # {} /\ account[t].source = "external" /\ Open(r, t, after)
        BY <1>4 DEF convert_user_to_local
  <2>3. KeepsActiveAdmin(t, after) /\ ActiveAdmins # {} /\ KeepsLocalAdmin(t, after)
        BY <2>2 DEF KeepsActiveAdmin, KeepsLocalAdmin, IsLocalAdmin
  <2>4. SafeToOpen(t, after)
        BY <2>1, <2>2, <2>3, GuardedIsSafe
  <2> QED BY <2>1, <2>2, <2>4, OpenInv
<1> QED BY <1>1, <1>2, <1>3, <1>4

(* Where SSO acts somebody is there, so there is an administrator.           *)

LEMMA SsoInv ==
    ASSUME GuardInv, OneAtATime, NEW r \in Requests, NEW t \in Users,
           resolve_external_user(r, t) \/ link_external_identity(r, t)
    PROVE  GuardInv'
<1>0. account[t] \in Accounts
      BY DEF GuardInv, GuardTypeOK
<1>1. ActiveAdmins # {}
      BY DEF GuardInv, NeedsSomebody, SomebodyThere, AdminRemains, resolve_external_user, link_external_identity
<1>2. ASSUME NEW role \in Roles, account[t].there = "new",
             Open(r, t, [there |-> "yes", role |-> role, active |-> TRUE, source |-> "external"])
      PROVE  GuardInv'
  <2> DEFINE after == [there |-> "yes", role |-> role, active |-> TRUE, source |-> "external"]
  <2>1. after \in Accounts
        BY DEF Accounts, Sources
  <2>2. KeepsActiveAdmin(t, after) /\ KeepsLocalAdmin(t, after)
        BY <1>2 DEF KeepsActiveAdmin, KeepsLocalAdmin, IsLocalAdmin, IsActiveAdmin
  <2>3. SafeToOpen(t, after)
        BY <1>1, <2>1, <2>2, GuardedIsSafe
  <2> QED BY <1>2, <2>1, <2>3, OpenInv
<1>3. ASSUME NEW role \in Roles, NEW base \in Accounts,
             base.there = account[t].there, base.active = account[t].active, base.role = account[t].role,
             base.source = "external", account[t].active, KeepsLocalAdmin(t, base),
             Open(r, t, [base EXCEPT !.role = apply_role(t, role)])
      PROVE  GuardInv'
  <2> DEFINE after == [base EXCEPT !.role = apply_role(t, role)]
  <2>1. after \in Accounts
        BY <1>3 DEF Accounts, apply_role, Roles
  <2>2. KeepsActiveAdmin(t, after)
    <3>1. CASE IsActiveAdmin(account[t]) /\ role = "user" /\ ActiveAdmins \ {t} = {}
      <4>1. after.role = "admin" /\ after.there = "yes" /\ after.active
            BY <1>3, <3>1 DEF apply_role, Accounts, IsActiveAdmin
      <4> QED BY <4>1 DEF KeepsActiveAdmin, IsActiveAdmin
    <3>2. CASE ~(IsActiveAdmin(account[t]) /\ role = "user" /\ ActiveAdmins \ {t} = {})
      <4>1. after.role = role /\ after.there = account[t].there /\ after.active
            BY <1>3, <3>2 DEF apply_role, Accounts
      <4> QED BY <4>1, <3>2 DEF KeepsActiveAdmin, IsActiveAdmin, Roles
    <3> QED BY <3>1, <3>2
  <2>3. KeepsLocalAdmin(t, after)
    <3>1. ~IsLocalAdmin(base)
          BY <1>3 DEF IsLocalAdmin
    <3> QED BY <1>3, <3>1 DEF KeepsLocalAdmin
  <2>4. SafeToOpen(t, after)
        BY <1>1, <2>1, <2>2, <2>3, GuardedIsSafe
  <2> QED BY <1>3, <2>1, <2>4, OpenInv
<1>4. CASE resolve_external_user(r, t)
  <2>1. PICK role \in Roles :
          \/ /\ account[t].there = "new"
             /\ Open(r, t, [there |-> "yes", role |-> role, active |-> TRUE, source |-> "external"])
          \/ /\ account[t].there = "yes" /\ account[t].active /\ account[t].source = "external"
             /\ Open(r, t, [account[t] EXCEPT !.role = apply_role(t, role)])
        BY <1>4 DEF resolve_external_user
  <2>2. account[t].source = "external" => KeepsLocalAdmin(t, account[t])
        BY DEF KeepsLocalAdmin
  <2> QED BY <2>1, <2>2, <1>0, <1>2, <1>3
<1>5. CASE link_external_identity(r, t)
  <2> DEFINE linked == [account[t] EXCEPT !.source = "external"]
  <2>1. PICK role \in Roles :
          /\ account[t].active /\ KeepsLocalAdmin(t, linked)
          /\ Open(r, t, [linked EXCEPT !.role = apply_role(t, role)])
        BY <1>5 DEF link_external_identity
  <2>2. /\ linked \in Accounts /\ linked.there = account[t].there /\ linked.active = account[t].active
        /\ linked.role = account[t].role /\ linked.source = "external"
        BY <1>0 DEF Accounts, Sources
  <2> HIDE DEF linked
  <2> QED BY <2>1, <2>2, <1>3
<1> QED BY <1>4, <1>5

LEMMA SettingsInv ==
    ASSUME GuardInv, OneAtATime, NEW r \in Requests, NEW admin \in Users, update_sso_settings(r, admin)
    PROVE  GuardInv'
<1>1. PICK value \in {"on", "off"} :
        request' = [request EXCEPT ![r] = [Idle(admin) EXCEPT !.open = TRUE, !.before = account[admin],
                                                              !.after = account[admin], !.sets = value]]
      BY DEF update_sso_settings
<1> DEFINE p == [Idle(admin) EXCEPT !.open = TRUE, !.before = account[admin],
                                    !.after = account[admin], !.sets = value]
<1>2. UNCHANGED <<account, sso, founders>> /\ ActiveAdmins # {}
      BY DEF update_sso_settings
<1>3. account[admin] \in Accounts
      BY DEF GuardInv, GuardTypeOK
<1>4. p \in Pending /\ p.target = admin /\ p.before = account[admin] /\ p.after = account[admin] /\ ~p.setup
      BY <1>3 DEF Idle, Pending
<1>5. SafeToOpen(admin, account[admin])
      BY <1>2 DEF SafeToOpen, ActiveAdmins, LocalAdmins
<1> HIDE DEF p
<1> QED BY <1>1, <1>2, <1>4, <1>5, OpenedInv DEF p

LEMMA SetupInv ==
    ASSUME GuardInv, OneAtATime, NEW r \in Requests, NEW t \in Users, register_first_user(r, t)
    PROVE  GuardInv'
<1> DEFINE after == [there |-> "yes", role |-> "admin", active |-> TRUE, source |-> "local"]
           p == [Idle(t) EXCEPT !.open = TRUE, !.before = account[t], !.setup = TRUE, !.after = after]
<1>1. request' = [request EXCEPT ![r] = p] /\ UNCHANGED <<account, sso, founders>>
      BY DEF register_first_user
<1>2. founders = {}
      BY DEF register_first_user, GuardInv, NeedsSomebody, SomebodyThere
<1>3. after \in Accounts /\ IsLocalAdmin(after) /\ IsActiveAdmin(after)
      BY DEF Accounts, Roles, Sources, IsLocalAdmin, IsActiveAdmin
<1>4. account[t] \in Accounts
      BY DEF GuardInv, GuardTypeOK
<1> HIDE DEF after
<1>5. p \in Pending /\ p.target = t /\ p.before = account[t] /\ p.after = after
      BY <1>3, <1>4 DEF Idle, Pending
<1>6. SafeToOpen(t, after)
      BY <1>3 DEF SafeToOpen
<1> HIDE DEF p
<1> QED BY <1>1, <1>2, <1>5, <1>6, OpenedInv

(* With nobody else in between, a request that commits does what it checked. *)

LEMMA Committed ==
    ASSUME GuardInv, NEW r \in Requests, Commit(r)
    PROVE  /\ account' \in [Users -> Accounts]
           /\ \A u \in Users : account'[u] = Then(r, u)
<1> DEFINE p == request[r]
<1>1. p \in Pending /\ account \in [Users -> Accounts] /\ p.open
      BY DEF GuardInv, GuardTypeOK, Commit
<1>2. p.target \in Users /\ p.before = account[p.target] /\ p.after \in Accounts
      BY <1>1 DEF Pending, GuardInv, OpenIsSafe
<1>3. account' = [account EXCEPT ![p.target] = Merged(account[p.target], p.before, p.after)]
      BY DEF Commit
<1>4. Merged(account[p.target], p.before, p.after) = p.after
      BY <1>1, <1>2, MergedUnread
<1> HIDE DEF p
<1>5. account' \in [Users -> Accounts] /\ \A u \in Users : account'[u] = IF u = p.target THEN p.after ELSE account[u]
      BY <1>1, <1>2, <1>3, <1>4
<1> QED BY <1>5 DEF Then, p

LEMMA ClosedInv ==
    ASSUME GuardInv, OneAtATime, NEW r \in Requests, NEW t \in Users,
           request' = [request EXCEPT ![r] = Idle(t)],
           account' \in [Users -> Accounts], sso' \in {"on", "off"}, founders' \subseteq Users,
           AdminRemains', NeedsSomebody', OneFounder'
    PROVE  GuardInv'
<1>1. request' \in [Requests -> Pending] /\ ~request'[r].open
      BY IdleType DEF GuardInv, GuardTypeOK
<1>2. OpenIsSafe'
      BY <1>1 DEF OpenIsSafe, OneAtATime
<1> QED BY <1>1, <1>2 DEF GuardInv, GuardTypeOK

LEMMA CommitInv ==
    ASSUME GuardInv, OneAtATime, NEW r \in Requests, Commit(r)
    PROVE  GuardInv'
<1> DEFINE p == request[r]
<1>1. p \in Pending /\ p.open
      BY DEF GuardInv, GuardTypeOK, Commit
<1>2. p.target \in Users /\ p.sets \in {"keep", "on", "off"} /\ p.setup \in BOOLEAN
      BY <1>1 DEF Pending
<1>3. account' \in [Users -> Accounts] /\ \A u \in Users : account'[u] = Then(r, u)
      BY Committed
<1>4. PICK u \in Users : IsActiveAdmin(account'[u])
      BY <1>1, <1>3 DEF GuardInv, OpenIsSafe
<1>5. AdminRemains' /\ NeedsSomebody'
      BY <1>4 DEF AdminRemains, NeedsSomebody, SomebodyThere, ActiveAdmins, IsActiveAdmin
<1>6. sso' \in {"on", "off"} /\ founders' \subseteq Users
      BY <1>2 DEF Commit, GuardInv, GuardTypeOK
<1>7. OneFounder'
  <2>1. p.setup => founders = {}
        BY <1>1 DEF GuardInv, OpenIsSafe
  <2> QED BY <2>1 DEF Commit, OneFounder, GuardInv
<1>8. request' = [request EXCEPT ![r] = Idle(p.target)]
      BY DEF Commit
<1> HIDE DEF p
<1> QED BY <1>2, <1>3, <1>5, <1>6, <1>7, <1>8, ClosedInv

LEMMA RollbackInv ==
    ASSUME GuardInv, OneAtATime, NEW r \in Requests, Rollback(r)
    PROVE  GuardInv'
<1>1. request[r].target \in Users
      BY DEF GuardInv, GuardTypeOK, Pending
<1>2. request' = [request EXCEPT ![r] = Idle(request[r].target)] /\ UNCHANGED <<account, sso, founders>>
      BY DEF Rollback
<1>3. AdminRemains' /\ NeedsSomebody' /\ OneFounder'
      BY <1>2 DEF GuardInv, AdminRemains, NeedsSomebody, SomebodyThere, OneFounder, ActiveAdmins
<1> QED BY <1>1, <1>2, <1>3, ClosedInv DEF GuardInv, GuardTypeOK

LEMMA GuardNextInv ==
    ASSUME GuardInv, OneAtATime, [GuardNext]_guardVars
    PROVE  GuardInv'
<1>1. CASE GuardNext
  <2>1. PICK r \in Requests :
          \/ Commit(r) \/ Rollback(r)
          \/ \E t \in Users : resolve_external_user(r, t) \/ link_external_identity(r, t) \/ register_first_user(r, t)
          \/ \E admin \in Users : update_sso_settings(r, admin)
          \/ \E admin, t \in Users :
               create_user(r, admin, t) \/ update_user(r, admin, t) \/ delete_user(r, admin, t)
               \/ convert_user_to_local(r, admin, t)
        BY <1>1 DEF GuardNext
  <2> QED BY <2>1, CommitInv, RollbackInv, SsoInv, SetupInv, SettingsInv, HandlersInv
<1>2. CASE UNCHANGED guardVars
      BY <1>2 DEF guardVars, GuardInv, GuardTypeOK, AdminRemains, NeedsSomebody, SomebodyThere, OpenIsSafe,
                  Then, OneFounder, ActiveAdmins, LocalAdmins
<1> QED BY <1>1, <1>2

LEMMA GuardInvariant == ASSUME OneAtATime PROVE GuardSpec => []GuardInv
<1>1. GuardInit => GuardInv
      BY GuardInitInv
<1>2. GuardInv /\ [GuardNext]_guardVars => GuardInv'
      BY GuardNextInv
<1> QED BY <1>1, <1>2, PTL DEF GuardSpec

(* Type correctness of the accounts and the open transactions.              *)

THEOREM GuardTypeCorrect == ASSUME OneAtATime PROVE GuardSpec => []GuardTypeOK
<1>1. GuardInv => GuardTypeOK
      BY DEF GuardInv
<1> QED BY <1>1, GuardInvariant, PTL

(* As soon as there is an account there is an active administrator          *)
(* (user_guard.py), whatever user management, single sign-on and the setup  *)
(* do; one transaction at a time, for with two that overlap it is false     *)
(* (run LastAdminRace).                                                     *)

THEOREM AnAdminRemains == ASSUME OneAtATime PROVE GuardSpec => []AdminRemains
<1>1. GuardInv => AdminRemains
      BY DEF GuardInv
<1> QED BY <1>1, GuardInvariant, PTL

(* The public setup makes at most one account the first one (setup.py), one *)
(* transaction at a time.                                                   *)

THEOREM OneSetup == ASSUME OneAtATime PROVE GuardSpec => []SetupOnce
<1>1. GuardInv => SetupOnce
  <2> SUFFICES ASSUME GuardInv PROVE SetupOnce
      OBVIOUS
  <2>1. CASE founders = {}
        BY <2>1, FS_EmptySet DEF SetupOnce
  <2>2. CASE founders # {}
    <3>1. PICK u : founders = {u}
          BY <2>2 DEF GuardInv, OneFounder
    <3> QED BY <3>1, FS_Singleton DEF SetupOnce
  <2> QED BY <2>1, <2>2
<1> QED BY <1>1, GuardInvariant, PTL

(* While single sign-on stays enabled, no transaction takes the last active *)
(* local administrator away (assert_keeps_local_admin).                     *)

THEOREM LastLocalAdminStays == ASSUME OneAtATime PROVE GuardSpec => EmergencyKept
<1>1. GuardInv /\ [GuardNext]_guardVars
        => [sso = "on" /\ sso' = "on" /\ LocalAdmins # {} => LocalAdmins' # {}]_guardVars
  <2> SUFFICES ASSUME GuardInv, GuardNext, sso = "on", sso' = "on", LocalAdmins # {}
               PROVE  LocalAdmins' # {}
      OBVIOUS
  <2>1. CASE \E r \in Requests : Commit(r)
    <3>1. PICK r \in Requests : Commit(r)
          BY <2>1
    <3>2. request[r].open /\ request[r] \in Pending /\ request[r].sets \in {"keep", "on"}
          BY <3>1 DEF Commit, GuardInv, GuardTypeOK, Pending
    <3>3. PICK u \in Users : IsLocalAdmin(Then(r, u))
          BY <3>2 DEF GuardInv, OpenIsSafe
    <3>4. account'[u] = Then(r, u)
          BY <3>1, Committed
    <3> QED BY <3>3, <3>4 DEF LocalAdmins
  <2>2. CASE account' = account
        BY <2>2 DEF LocalAdmins
  <2>3. (\E r \in Requests : Commit(r)) \/ account' = account
    <3>1. \A r \in Requests : Rollback(r) => account' = account
          BY DEF Rollback
    <3>2. ASSUME NEW r \in Requests, NEW t \in Users, NEW admin \in Users,
                 \/ resolve_external_user(r, t) \/ link_external_identity(r, t)
                 \/ register_first_user(r, t) \/ update_sso_settings(r, admin)
                 \/ create_user(r, admin, t) \/ update_user(r, admin, t) \/ delete_user(r, admin, t)
                 \/ convert_user_to_local(r, admin, t)
          PROVE  account' = account
          BY <3>2, Zenon DEF resolve_external_user, link_external_identity, register_first_user,
             update_sso_settings, create_user, update_user, delete_user, convert_user_to_local, Open
    <3>3. PICK r \in Requests :
            \/ Commit(r) \/ Rollback(r)
            \/ \E t \in Users : resolve_external_user(r, t) \/ link_external_identity(r, t) \/ register_first_user(r, t)
            \/ \E admin \in Users : update_sso_settings(r, admin)
            \/ \E admin, t \in Users :
                 create_user(r, admin, t) \/ update_user(r, admin, t) \/ delete_user(r, admin, t)
                 \/ convert_user_to_local(r, admin, t)
          BY DEF GuardNext
    <3> QED BY <3>1, <3>2, <3>3, Zenon
  <2> QED BY <2>1, <2>2, <2>3
<1> QED BY <1>1, GuardInvariant, PTL DEF GuardSpec, EmergencyKept

------------------------------------------------------------------------------
(* The parts side by side                                                   *)

BackendInv == part \in Parts /\ DynInv /\ IndexInv /\ GuardInv

\* A step of one part leaves the others as they are: each keeps what it keeps alone.
LEMMA BackendInvariant == ASSUME OneAtATime PROVE BackendSpec => []BackendInv
<1>1. BackendInit => BackendInv
      BY DynInitInv, IndexInitInv, GuardInitInv DEF BackendInit, BackendInv
<1>2. BackendInv /\ [BackendNext]_allVars => BackendInv'
  <2> SUFFICES ASSUME BackendInv, [BackendNext]_allVars PROVE BackendInv'
      OBVIOUS
  <2>1. [DynNext]_dynVars /\ [IndexNext]_indexVars /\ [GuardNext]_guardVars /\ part' = part
        BY DEF BackendNext, allVars
  <2> QED BY <2>1, DynNextInv, IndexNextInv, GuardNextInv DEF BackendInv
<1> QED BY <1>1, <1>2, PTL DEF BackendSpec

\* What the parts keep, they keep in the run that checks all of them: types, servers
\* that are remembered, answers that are recent, and an administrator.
THEOREM BackendKeeps ==
    ASSUME OneAtATime
    PROVE  BackendSpec => [](BackendTypeOK /\ DeviatingIsRemembered /\ AnswersAreRecent /\ AdminRemains)
<1>1. BackendInv => BackendTypeOK
      BY DEF BackendInv, BackendTypeOK, Parts, DynInv, IndexInv, GuardInv
<1>2. BackendInv => DeviatingIsRemembered
      BY DEF BackendInv, DynInv, OthersAreKnown, Touched, DeviatingIsRemembered
<1>3. BackendInv => AnswersAreRecent /\ AdminRemains
      BY DEF BackendInv, IndexInv, GuardInv
<1> QED BY <1>1, <1>2, <1>3, BackendInvariant, PTL
==============================================================================
