-------------------------------- MODULE DynDns --------------------------------
(***************************************************************************)
(* Updates of one hostname with one DynDNS token (services/dyndns.py       *)
(* perform_update, called by routers/dyndns.py): a router reports its      *)
(* address, the servers that hold another one are written, and those that  *)
(* could not be read or written are remembered in the token's row.         *)
(*                                                                         *)
(* verify_token writes the row first, so the lock of the row lets one      *)
(* update at a time past it; but the row was read before that lock.  A     *)
(* PATCH nobody waits for any more may still be applied.  One address      *)
(* stands for A and AAAA; their TTL, a CNAME at the name, the rights of    *)
(* the owner and changes of the record by others are left out.             *)
(***************************************************************************)
EXTENDS Naturals, FiniteSets

CONSTANTS
    Servers,     \* the writable servers that hold the zone
    MayMiss,     \* those the zone index may lack: not loaded, or not readable for long
    Updates,     \* slots for updates under way
    Addresses,   \* addresses the router may have
    MoveBound,   \* bound: changes of the router's address
    FaultBound   \* bound: what fails

ASSUME DynDnsAssumption == MayMiss \subseteq Servers /\ FaultBound \in Nat /\ MoveBound \in Nat

VARIABLES
    wan,      \* the address of the router
    store,    \* the address each server holds for the hostname
    stale,    \* token.stale_servers for the hostname
    rowLock,  \* the updates whose transaction has written the token's row
    update,   \* the updates
    late,     \* PATCHes their update no longer waits for
    answer,   \* the answer to the last update
    moves, faults,  \* how often the address changed, and something failed
    latest,   \* observer: the address of the last update that was carried to its end
    astray,   \* observer: servers it did not find in the index, or with an address of
              \* an update that was gone
    alone,    \* observer: the update that began when none was open, while none follows
    exact     \* observer: the last update that was carried to its end was alone

dynVars == <<wan, store, stale, rowLock, update, late, answer, moves, faults, latest, astray, alone, exact>>

NoUpdate == [at |-> "idle", wanted |-> "none", loaded |-> {}, read |-> {}, unreachable |-> {},
             same |-> FALSE, todo |-> {}, errored |-> {}, written |-> {}]

UpdateType ==
    [at : {"idle", "loaded", "locked", "writing"}, wanted : Addresses \cup {"none"},
     loaded : SUBSET Servers, read : SUBSET Servers, unreachable : SUBSET Servers, same : BOOLEAN,
     todo : SUBSET Servers, errored : SUBSET Servers, written : SUBSET Servers]

DynTypeOK ==
    /\ wan \in Addresses /\ store \in [Servers -> Addresses] /\ latest \in Addresses
    /\ stale \subseteq Servers /\ astray \subseteq Servers /\ rowLock \subseteq Updates
    /\ alone \subseteq Updates /\ exact \in BOOLEAN
    /\ update \in [Updates -> UpdateType]
    /\ \A u \in Updates : update[u].at # "idle" => update[u].wanted \in Addresses
    /\ late \subseteq Servers \X Addresses
    /\ answer \in {"none", "good", "nochg", "911"}
    /\ moves \in 0..MoveBound /\ faults \in 0..FaultBound

DynInit ==
    /\ wan \in Addresses /\ store \in {[s \in Servers |-> a] : a \in Addresses}
    /\ latest \in Addresses /\ \A s \in Servers : store[s] = latest
    /\ stale = {} /\ rowLock = {} /\ update = [u \in Updates |-> NoUpdate]
    /\ late = {} /\ answer = "none" /\ moves = 0 /\ faults = 0 /\ astray = {}
    /\ alone = {} /\ exact = TRUE

-----------------------------------------------------------------------------
\* The provider gives the router another address.
Move(a) ==
    /\ moves < MoveBound /\ a # wan
    /\ wan' = a /\ moves' = moves + 1
    /\ UNCHANGED <<store, stale, rowLock, update, late, answer, faults, latest, astray, alone, exact>>

\* (Mutant: a request without an address goes on.)
Ping_empty(u) ==
    /\ update[u].at = "idle"
    /\ update' = [update EXCEPT ![u] = [NoUpdate EXCEPT !.at = "loaded", !.loaded = stale]]
    /\ UNCHANGED <<wan, store, stale, rowLock, late, answer, moves, faults, latest, astray, exact>>
    /\ alone' = IF \A v \in Updates : update[v].at = "idle" THEN {u} ELSE {}

\* The request arrives; verify_token selects the row of the token.
Ping(u) ==
    /\ update[u].at = "idle"
    /\ update' = [update EXCEPT ![u] = [NoUpdate EXCEPT !.at = "loaded", !.wanted = wan,
                                                        !.loaded = stale]]
    /\ UNCHANGED <<wan, store, stale, rowLock, late, answer, moves, faults, latest, astray, exact>>
    /\ alone' = IF \A v \in Updates : update[v].at = "idle" THEN {u} ELSE {}

\* verify_token writes last_used_at: from here on the row is locked.
verify_token(u) ==
    /\ update[u].at = "loaded" /\ rowLock = {}
    /\ rowLock' = {u}
    /\ update' = [update EXCEPT ![u].at = "locked"]
    /\ UNCHANGED <<wan, store, stale, late, answer, moves, faults, latest, astray, alone, exact>>

\* The server whose address decides between good and nochg: the first that can
\* be read and is not known as stale, or else the first that can be read.
References(u, read) == IF read \ update[u].loaded # {} THEN read \ update[u].loaded ELSE read

\* (Mutant: if the address did not change, nothing is written.)
Deviating_reference(u, read) ==
    IF \E s \in References(u, read) : store[s] = update[u].wanted THEN {}
    ELSE {s \in read : store[s] # update[u].wanted}

\* The servers an update writes.
Deviating(u, read) == {s \in read : store[s] # update[u].wanted}

\* find_zone and _read_states: the index lacks the servers of "missing", and
\* those of "unreachable" do not answer within 3 s.
ReadStates(u) ==
    \E missing \in SUBSET MayMiss : \E unreachable \in SUBSET (Servers \ missing) :
      LET read == Servers \ (missing \cup unreachable)
          failing == IF missing \cup unreachable = {} THEN 0 ELSE 1
      IN /\ update[u].at = "locked" /\ faults + failing <= FaultBound
         /\ read # {}
         /\ \E ref \in References(u, read) :
              update' = [update EXCEPT ![u].at = "writing", ![u].read = read,
                           ![u].unreachable = unreachable,
                           ![u].same = (store[ref] = update[u].wanted),
                           ![u].todo = Deviating(u, read)]
         /\ faults' = faults + failing
         /\ UNCHANGED <<wan, store, stale, rowLock, late, answer, moves, latest, astray, alone, exact>>

\* No server has the zone, or none answers: nohost and 911 leave the row as it is.
NothingReadable(u) ==
    /\ update[u].at = "locked" /\ faults < FaultBound
    /\ update' = [update EXCEPT ![u] = NoUpdate] /\ rowLock' = {}
    /\ answer' = "911" /\ faults' = faults + 1
    /\ UNCHANGED <<wan, store, stale, late, moves, latest, astray, alone, exact>>

\* fanout.apply_rrsets writes the next deviating server: it is written (and the
\* answer came, or reading the primary again showed it); it is not; or nobody
\* knows, and it was written, or may be yet.
WriteSucceeds(u, s) ==
    /\ s \in update[u].todo
    /\ store' = [store EXCEPT ![s] = update[u].wanted]
    /\ update' = [update EXCEPT ![u].todo = @ \ {s}, ![u].written = @ \cup {s}]
    /\ UNCHANGED <<wan, stale, rowLock, late, answer, moves, faults, latest, astray, alone, exact>>

WriteFails(u, s) ==
    /\ s \in update[u].todo /\ faults < FaultBound /\ faults' = faults + 1
    /\ update' = [update EXCEPT ![u].todo = @ \ {s}, ![u].errored = @ \cup {s}]
    /\ \/ UNCHANGED <<store, late>>
       \/ store' = [store EXCEPT ![s] = update[u].wanted] /\ UNCHANGED late
       \/ late' = late \cup {<<s, update[u].wanted>>} /\ UNCHANGED store
    /\ UNCHANGED <<wan, stale, rowLock, answer, moves, latest, astray, alone, exact>>

\* (Mutant: a server whose write failed is not remembered.)
set_stale_unreachable(u) ==
    LET new == update[u].unreachable
    IN stale' = IF new = update[u].loaded THEN stale ELSE new

\* _set_stale and the commit.  SQLAlchemy writes a column whose value differs
\* from the one that was loaded.
set_stale(u) ==
    LET new == update[u].unreachable \cup update[u].errored
    IN stale' = IF new = update[u].loaded THEN stale ELSE new

\* (Mutant: every write is reported.)
Answer_written(u) ==
    IF update[u].written # {} THEN "good" ELSE IF update[u].same THEN "nochg" ELSE "911"

\* The answer: good for a change, nochg where the reference had the address
\* already, even if the repair failed, and 911 (or dnserr) if nothing was written.
Answer(u) ==
    IF update[u].same THEN "nochg"
    ELSE IF update[u].written # {} THEN "good" ELSE "911"

Finish(u) ==
    /\ update[u].at = "writing" /\ update[u].todo = {}
    /\ set_stale(u)
    /\ answer' = Answer(u) /\ latest' = update[u].wanted
    /\ astray' = {s \in astray \cup (Servers \ (update[u].read \cup update[u].unreachable)) :
                    store[s] # update[u].wanted}
    /\ rowLock' = {} /\ update' = [update EXCEPT ![u] = NoUpdate]
    /\ exact' = (u \in alone)
    /\ UNCHANGED <<wan, store, late, moves, faults, alone>>

\* The process dies, or an exception rolls the transaction back.
Die(u) ==
    /\ update[u].at # "idle" /\ faults < FaultBound /\ faults' = faults + 1
    /\ astray' = astray \cup update[u].written \cup update[u].errored
    /\ rowLock' = rowLock \ {u} /\ update' = [update EXCEPT ![u] = NoUpdate]
    /\ UNCHANGED <<wan, store, stale, late, answer, moves, latest, alone, exact>>

\* PowerDNS applies a PATCH nobody waits for, or never does.
ApplyLate(p) ==
    /\ late' = late \ {p}
    /\ \/ store' = [store EXCEPT ![p[1]] = p[2]] /\ astray' = astray \cup {p[1]}
       \/ UNCHANGED <<store, astray>>
    /\ UNCHANGED <<wan, stale, rowLock, update, answer, moves, faults, latest, alone, exact>>

UpdateStep(u) ==
    \/ verify_token(u) \/ ReadStates(u) \/ NothingReadable(u) \/ Finish(u)
    \/ \E s \in Servers : WriteSucceeds(u, s) \/ WriteFails(u, s)

DynNext ==
    \/ \E a \in Addresses : Move(a)
    \/ \E u \in Updates : Ping(u) \/ UpdateStep(u) \/ Die(u)
    \/ \E p \in late : ApplyLate(p)

\* The router reports its address again and again, and an update goes on: every
\* exchange with a server ends by its timeout.
DynFairness == \A u \in Updates : WF_dynVars(Ping(u)) /\ WF_dynVars(UpdateStep(u))

DynSpec == DynInit /\ [][DynNext]_dynVars
FairDynSpec == DynSpec /\ DynFairness

-----------------------------------------------------------------------------
\* "Fehlerhafte oder nicht erreichbare Server stehen persistent in
\* dyndns_tokens.stale_servers" (dyndns.py): between updates every server holds
\* the address of the last one, or is remembered, unless the index lacked it, or a
\* PATCH reached it whose update was gone.  It does not hold after an update that
\* another one overlapped, and holds again after the next that none did.
DeviatingIsRemembered ==
    exact /\ (\A u \in Updates : update[u].at = "idle")
        => \A s \in Servers : store[s] = latest \/ s \in stale \cup astray

\* Repairing a server is not reported as a change: an update with the address of
\* the last one is not answered good, although some server held another one,
\* when it read one that is neither stale nor astray, and no other overlapped.
RepairIsNoChange ==
    [][\A u \in Updates :
         (/\ Finish(u) /\ answer' = "good" /\ exact /\ u \in alone
          /\ References(u, update[u].read) \cap (update[u].loaded \cup astray) = {})
         => update[u].wanted # latest]_dynVars

\* Whatever failed and however old and new reports overtake each other, once the
\* address stays every server gets it.
Converges == <>[](\A s \in Servers : store[s] = wan)

===============================================================================
