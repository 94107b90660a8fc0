------------------------------- MODULE ZoneIndex -------------------------------
(***************************************************************************)
(* The zone index (services/zone_index.py): which zones a server carries,  *)
(* cached for CACHE_TTL, read again under a lock, and kept up to STALE_MAX *)
(* while the server cannot be read.  Every server has a cache and a lock   *)
(* of its own, so one server is modelled; its zones are a version that a   *)
(* creation, a deletion or an import raises.                               *)
(***************************************************************************)
EXTENDS Naturals

CONSTANTS
    Readers,       \* requests that look a zone up (DynDNS, PTR)
    CACHE_TTL, STALE_MAX, LIST_TIMEOUT,
    ChangeBound,   \* bound: versions of the zones
    ClockBound     \* bound: time

ASSUME ZoneIndexAssumption ==
    /\ {CACHE_TTL, STALE_MAX, LIST_TIMEOUT, ChangeBound, ClockBound} \subseteq Nat
    /\ CACHE_TTL > 0 /\ CACHE_TTL <= STALE_MAX

VARIABLES
    now,       \* time.monotonic()
    zones,     \* the version of the zones on the server
    replaced,  \* when each version before it was replaced
    cache,     \* _cache[server], or nothing
    indexLock, \* the reader inside _lock(server), or nobody
    reader,    \* _zones_of of each reader
    told       \* observer: the answer given by this step

indexVars == <<now, zones, replaced, cache, indexLock, reader, told>>

NoEntry == [at |-> 0, value |-> 0]
Free == "nobody"
Resting == [at |-> "idle", started |-> 0, hit |-> NoEntry, value |-> 0]
NoAnswer == [failed |-> FALSE, age |-> 0]
Versions == 1..(ChangeBound + 1)
EntryType == [at : 0..ClockBound, value : {0} \cup Versions]

IndexTypeOK ==
    /\ now \in 0..ClockBound /\ zones \in Versions
    /\ replaced \in [Versions -> 0..ClockBound]
    /\ cache \in EntryType /\ indexLock \in Readers \cup {Free}
    /\ reader \in [Readers -> [at : {"idle", "waiting", "listing", "answered"},
                               started : 0..ClockBound, hit : EntryType, value : {0} \cup Versions]]
    /\ told \in [failed : BOOLEAN, age : 0..ClockBound]

IndexInit ==
    /\ now = 0 /\ zones = 1 /\ replaced = [v \in Versions |-> 0] /\ cache = NoEntry
    /\ indexLock = Free /\ reader = [r \in Readers |-> Resting]
    /\ told = NoAnswer

-----------------------------------------------------------------------------
\* Time passes; a request to the server ends by its timeout.
Tick ==
    /\ now < ClockBound /\ now' = now + 1
    /\ \A r \in Readers : reader[r].at \in {"listing", "answered"} => now < reader[r].started + LIST_TIMEOUT
    /\ UNCHANGED <<zones, replaced, cache, indexLock, reader>> /\ told' = NoAnswer

\* The zones of the server change: by the panel, which calls invalidate
\* afterwards, or past it.
ZonesChange ==
    /\ zones <= ChangeBound
    /\ zones' = zones + 1 /\ replaced' = [replaced EXCEPT ![zones] = now]
    /\ UNCHANGED <<now, cache, indexLock, reader>> /\ told' = NoAnswer

invalidate ==
    /\ cache' = NoEntry
    /\ UNCHANGED <<now, zones, replaced, indexLock, reader>> /\ told' = NoAnswer

IsHit == cache.value # 0 /\ now - cache.at < CACHE_TTL

\* An answer: how long ago its version was replaced.
Told(v, failed) ==
    [failed |-> failed, age |-> IF v \in 1..(zones - 1) THEN now - replaced[v] ELSE 0]

Returns(r, v, failed) ==
    /\ reader' = [reader EXCEPT ![r] = Resting]
    /\ told' = Told(v, failed)

\* A reader looks into the cache before it waits for the lock ...
LookUp(r) ==
    /\ reader[r].at = "idle"
    /\ IF IsHit
       THEN /\ told' = Told(cache.value, FALSE)
            /\ UNCHANGED reader
       ELSE /\ reader' = [reader EXCEPT ![r] = [Resting EXCEPT !.at = "waiting"]]
            /\ told' = NoAnswer
    /\ UNCHANGED <<now, zones, replaced, cache, indexLock>>

\* ... and again inside it.
Enter(r) ==
    /\ reader[r].at = "waiting" /\ indexLock = Free
    /\ IF IsHit
       THEN Returns(r, cache.value, FALSE) /\ UNCHANGED indexLock
       ELSE /\ indexLock' = r
            /\ reader' = [reader EXCEPT ![r].at = "listing", ![r].started = now, ![r].hit = cache]
            /\ told' = NoAnswer
    /\ UNCHANGED <<now, zones, replaced, cache>>

\* The server lists its zones; the answer is on its way.
ServerLists(r) ==
    /\ reader[r].at = "listing"
    /\ reader' = [reader EXCEPT ![r].at = "answered", ![r].value = zones]
    /\ UNCHANGED <<now, zones, replaced, cache, indexLock>> /\ told' = NoAnswer

ListArrives(r) ==
    /\ reader[r].at = "answered"
    /\ cache' = [at |-> now, value |-> reader[r].value] /\ indexLock' = Free
    /\ Returns(r, reader[r].value, FALSE)
    /\ UNCHANGED <<now, zones, replaced>>

\* (Mutant: the old value is cached again, so that the server is left in peace.)
ListFails_caches(r) ==
    LET entry == reader[r].hit
        usable == entry.value # 0 /\ reader[r].started - entry.at < STALE_MAX
    IN /\ reader[r].at \in {"listing", "answered"}
       /\ indexLock' = Free /\ Returns(r, IF usable THEN entry.value ELSE 0, TRUE)
       /\ cache' = IF usable THEN [at |-> now, value |-> entry.value] ELSE cache
       /\ UNCHANGED <<now, zones, replaced>>

\* (Mutant: the lock is kept when the read fails.)
ListFails_locked(r) ==
    LET entry == reader[r].hit
        usable == entry.value # 0 /\ reader[r].started - entry.at < STALE_MAX
    IN /\ reader[r].at \in {"listing", "answered"}
       /\ Returns(r, IF usable THEN entry.value ELSE 0, TRUE)
       /\ UNCHANGED <<now, zones, replaced, cache, indexLock>>

\* The server cannot be read, or too late: the old value, if it is not too old.
ListFails(r) ==
    LET entry == reader[r].hit
        usable == entry.value # 0 /\ reader[r].started - entry.at < STALE_MAX
    IN /\ reader[r].at \in {"listing", "answered"}
       /\ indexLock' = Free /\ Returns(r, IF usable THEN entry.value ELSE 0, TRUE)
       /\ UNCHANGED <<now, zones, replaced, cache>>

ReaderGoesOn(r) == Enter(r) \/ ServerLists(r) \/ ListArrives(r) \/ ListFails(r)

IndexNext ==
    \/ Tick \/ ZonesChange \/ invalidate
    \/ \E r \in Readers : LookUp(r) \/ ReaderGoesOn(r)

\* A request to the server ends, and an asyncio.Lock serves its waiters in turn.
IndexFairness ==
    \A r \in Readers : /\ SF_indexVars(Enter(r))
                       /\ WF_indexVars(ServerLists(r) \/ ListArrives(r) \/ ListFails(r))

IndexSpec == IndexInit /\ [][IndexNext]_indexVars /\ IndexFairness

-----------------------------------------------------------------------------
\* No answer is older than the time it may be cached and the request behind it
\* ("60 s, bei Lesefehlern hoechstens 10 min alte Werte"): readers that wait for
\* one another, failing reads and entries stored late do not add up.
AnswersAreRecent ==
    told.age < IF told.failed THEN STALE_MAX + 2 * LIST_TIMEOUT ELSE CACHE_TTL + LIST_TIMEOUT

\* Nobody waits for the lock for ever: a read that fails gives it back.
LookUpsEnd == \A r \in Readers : reader[r].at # "idle" ~> reader[r].at = "idle"

================================================================================
