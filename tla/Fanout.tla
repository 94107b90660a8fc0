-------------------------------- MODULE Fanout --------------------------------
(***************************************************************************)
(* services/fanout.py: one edit of an RRset is written to every writable   *)
(* PowerDNS server, the primary first and the peers one after the other.   *)
(*                                                                         *)
(* Several edits of the same RRset run at the same time (requests of one   *)
(* backend process interleave at every await) and nothing locks the zone.  *)
(* Servers may share a backend database.  A PATCH that was sent may be     *)
(* applied, refused or lost; when its answer does not arrive the edit goes *)
(* on, and the PATCH may still be applied later.                           *)
(*                                                                         *)
(* The zone is cut down to the RRset that is edited: a set of values.  Its *)
(* TTL, flags and comments, and the other RRsets of a zone, are left out.  *)
(***************************************************************************)
EXTENDS FiniteSets

CONSTANTS Servers,    \* PowerDNS servers of the configuration
          Backends,   \* their databases
          Backend,    \* the database of each server
          Hosts,      \* databases that have the zone
          Values,     \* contents of the records of the RRset
          Edits,      \* requests that edit it
          Operations  \* what a request may ask for

Kinds == {"create", "bulk", "update", "delete", "clear", "set"}
Operation == [kind : Kinds, old : Values, new : Values, require_primary : BOOLEAN]

ASSUME BackendAssumption == Backend \in [Servers -> Backends] /\ Hosts \subseteq Backends
ASSUME HostsAssumption == \A b \in Hosts : \E s \in Servers : Backend[s] = b
ASSUME ServersAssumption == Servers # {}
ASSUME OperationsAssumption == Operations # {} /\ Operations \subseteq Operation

VARIABLES
    store,   \* store[b]: the RRset in database b
    edit,    \* how far each edit is
    wire,    \* wire[e][s]: the PATCH of edit e to server s
    result,  \* result[e][s]: what edit e reports of server s
    start,   \* observer: the RRset before the first edit
    note     \* observer: what was true of each edit since it began

vars == <<store, edit, wire, result, start, note>>

------------------------------------------------------------------------------
(* What an edit asks for                                                    *)

\* Mode A sends the same REPLACE to every server; the others read each server
\* and build a payload of their own for it.
ModeA(op) == op.kind = "set"

\* The builder finds something to change (update_builder, delete_builder: None).
Matches(op, rrset) == op.kind \in {"update", "delete"} => op.old \in rrset

\* A bulk plan that changes nothing on a server ([]).
Unchanged(op, rrset) == op.kind = "bulk" /\ op.new \in rrset

\* Mutant: the payload is made of the new value alone.
Payload_new_only(op, rrset) ==
    CASE op.kind \in {"create", "bulk", "set"} -> {op.new}
      [] op.kind = "update" -> (rrset \ {op.old}) \cup {op.new}
      [] op.kind = "delete" -> rrset \ {op.old}
      [] op.kind = "clear"  -> {}

Payload(op, rrset) ==
    CASE op.kind \in {"create", "bulk"} -> rrset \cup {op.new}
      [] op.kind = "update" -> (rrset \ {op.old}) \cup {op.new}
      [] op.kind = "delete" -> rrset \ {op.old}
      [] op.kind = "clear"  -> {}
      [] op.kind = "set"    -> {op.new}

\* What the edit wants is true of an RRset.
Wanted(op, rrset) ==
    /\ op.kind \in {"create", "bulk", "update"} => op.new \in rrset
    /\ op.kind \in {"update", "delete"} => op.old \notin rrset \/ op.old = op.new
    /\ op.kind = "clear" => rrset = {}
    /\ op.kind = "set" => rrset = {op.new}

\* The values an edit may take away.
Touches(op) ==
    CASE op.kind \in {"clear", "set"}     -> Values
      [] op.kind \in {"update", "delete"} -> {op.old}
      [] OTHER                            -> {}

------------------------------------------------------------------------------
(* State                                                                    *)

Phases == {"idle", "next", "read", "patch", "verify", "done", "dead"}
Results == {"none", "saved", "verified_after_timeout", "no_changes", "no_match",
            "zone_missing", "error", "unclear"}
PrimarySuccess == {"saved", "verified_after_timeout", "no_changes"}

\* An edit: its targets still to do, the server it is at, and the state before its
\* PATCH, if it knows it.
Edit == [phase : Phases, op : Operations, primary : Servers, todo : SUBSET Servers,
         at : Servers, known : BOOLEAN, before : SUBSET Values]
Patch == [state : {"none", "waiting", "applied", "dropped"}, rrset : SUBSET Values]
NoPatch == [state |-> "none", rrset |-> {}]

\* Since the edit began: its primary was in the wanted state at some moment; no other
\* edit was under way; and when it began, all databases held the same.
Note == [held : BOOLEAN, alone : BOOLEAN, synced : BOOLEAN]

TypeOK ==
    /\ store \in [Backends -> SUBSET Values]
    /\ edit \in [Edits -> Edit]
    /\ wire \in [Edits -> [Servers -> Patch]]
    /\ result \in [Edits -> [Servers -> Results]]
    /\ start \in [Backends -> SUBSET Values]
    /\ note \in [Edits -> Note]

Active(e) == edit[e].phase \notin {"idle", "done", "dead"}
InSync    == \A b, c \in Hosts : store[b] = store[c]

\* No edit is under way, and no PATCH of an earlier one may still be applied.
Quiet == \A e \in Edits : ~Active(e) /\ \A s \in Servers : wire[e][s].state # "waiting"

NoEdit(op, s) == [phase |-> "idle", op |-> op, primary |-> s, todo |-> {}, at |-> s,
                  known |-> FALSE, before |-> {}]

Init ==
    /\ store \in [Backends -> SUBSET Values]
    /\ \A b \in Backends \ Hosts : store[b] = {}
    /\ start = store
    /\ edit = [e \in Edits |-> NoEdit(CHOOSE op \in Operations : TRUE, CHOOSE s \in Servers : TRUE)]
    /\ wire = [e \in Edits |-> [s \in Servers |-> NoPatch]]
    /\ result = [e \in Edits |-> [s \in Servers |-> "none"]]
    /\ note = [e \in Edits |-> [held |-> FALSE, alone |-> FALSE, synced |-> FALSE]]

------------------------------------------------------------------------------
(* apply_rrsets                                                             *)

Becomes(e, x) == edit' = [edit EXCEPT ![e] = x]

\* What an edit knew goes out of scope when _apply_one, and when the edit, is over.
Returned(x)     == [x EXCEPT !.phase = "next", !.known = FALSE, !.before = {}]
Ended(x, phase) == [NoEdit(x.op, x.primary) EXCEPT !.phase = phase]
At(e)       == edit[e].at
IsPrimary(e) == At(e) = edit[e].primary
Report(e, r) == result' = [result EXCEPT ![e][At(e)] = r]

PrimaryTook(e) == result[e][edit[e].primary] \in PrimarySuccess

Started(op, p, targets, known, before) ==
    [NoEdit(op, p) EXCEPT !.phase = "next", !.todo = targets, !.known = known, !.before = before]

\* Which servers are writable and loaded is left open.  An edit whose primary is not
\* is refused.  A caller in mode A may know the primary's state before the edit.
Begin(e, op, p) ==
    /\ edit[e].phase = "idle"
    /\ \/ Becomes(e, Ended(NoEdit(op, p), "done"))
       \/ \E targets \in SUBSET Servers, known \in BOOLEAN :
             /\ p \in targets /\ (known => ModeA(op))
             /\ Becomes(e, Started(op, p, targets, known,
                                   IF known THEN store[Backend[p]] ELSE {}))
    /\ note' = [f \in Edits |->
                  IF f = e THEN [held |-> Wanted(op, store[Backend[p]]), alone |-> Quiet,
                                 synced |-> InSync]
                  ELSE [note[f] EXCEPT !.alone = FALSE]]
    /\ UNCHANGED <<store, wire, result, start>>

\* Mutant: only an error of the primary keeps the peers from being written.
MayGoOn_unclear(e) ==
    /\ edit[e].op.require_primary /\ edit[e].primary \notin edit[e].todo =>
          result[e][edit[e].primary] # "error"
    /\ edit[e].todo # {}

\* No peer is written before the primary has confirmed, if the caller requires it.
MayGoOn(e) ==
    /\ edit[e].op.require_primary /\ edit[e].primary \notin edit[e].todo => PrimaryTook(e)
    /\ edit[e].todo # {}

Send(e, s, rrset) ==
    wire' = [wire EXCEPT ![e][s] = [state |-> "waiting", rrset |-> rrset]]

Advanced(x, s) ==
    [x EXCEPT !.at = s, !.todo = x.todo \ {s}, !.phase = IF ModeA(x.op) THEN "patch" ELSE "read"]

\* The primary first, then the peers in the order the servers were loaded in (left
\* open: a reload may change it).
Turn(e, s) ==
    /\ edit[e].phase = "next" /\ MayGoOn(e)
    /\ s \in edit[e].todo /\ (edit[e].primary \in edit[e].todo => s = edit[e].primary)
    /\ Becomes(e, Advanced(edit[e], s))
    /\ IF ModeA(edit[e].op) THEN Send(e, s, Payload(edit[e].op, {})) ELSE UNCHANGED wire
    /\ UNCHANGED <<store, result, start, note>>

End(e) ==
    /\ edit[e].phase = "next" /\ ~MayGoOn(e)
    /\ Becomes(e, Ended(edit[e], "done"))
    /\ UNCHANGED <<store, wire, result, start, note>>

------------------------------------------------------------------------------
(* _apply_one                                                               *)

\* Mutant: every server gets what the primary's RRset is turned into.
Source_primary(e) == store[Backend[edit[e].primary]]

\* The RRset a builder works on: the one of the server it writes to.
Source(e) == store[Backend[At(e)]]

ReadFound(x, rrset) == [x EXCEPT !.phase = "patch", !.known = TRUE, !.before = rrset]
ReadSkips(e, status) == Becomes(e, Returned(edit[e])) /\ Report(e, status) /\ UNCHANGED wire

Read(e) ==
    /\ edit[e].phase = "read"
    /\ LET op == edit[e].op  rrset == Source(e) IN
          \/ Backend[At(e)] \notin Hosts /\ ReadSkips(e, "zone_missing")
          \/ Backend[At(e)] \in Hosts /\ ~Matches(op, rrset) /\ ReadSkips(e, "no_match")
          \/ /\ Backend[At(e)] \in Hosts /\ Matches(op, rrset) /\ Unchanged(op, rrset)
             /\ ReadSkips(e, "no_changes")
          \/ /\ Backend[At(e)] \in Hosts /\ Matches(op, rrset) /\ ~Unchanged(op, rrset)
             /\ Becomes(e, ReadFound(edit[e], rrset))
             /\ Send(e, At(e), Payload(op, rrset))
             /\ UNCHANGED result
    /\ UNCHANGED <<store, start, note>>

ReadFails(e) ==
    /\ edit[e].phase = "read"
    /\ ReadSkips(e, "error")
    /\ UNCHANGED <<store, start, note>>

\* The server applies a PATCH, even one its sender no longer waits for.
Apply(e, s) ==
    /\ wire[e][s].state = "waiting" /\ Backend[s] \in Hosts
    /\ wire' = [wire EXCEPT ![e][s].state = "applied"]
    /\ store' = [store EXCEPT ![Backend[s]] = wire[e][s].rrset]
    /\ note' = [f \in Edits |->
                  IF Active(f) /\ Backend[edit[f].primary] = Backend[s]
                     /\ Wanted(edit[f].op, wire[e][s].rrset)
                  THEN [note[f] EXCEPT !.held = TRUE] ELSE note[f]]
    /\ UNCHANGED <<edit, result, start>>

\* It is lost, or the server gives up on it.
Drop(e, s) ==
    /\ wire[e][s].state = "waiting"
    /\ wire' = [wire EXCEPT ![e][s].state = "dropped"]
    /\ UNCHANGED <<store, edit, result, start, note>>

PatchSaved(e) ==
    /\ edit[e].phase = "patch" /\ wire[e][At(e)].state = "applied"
    /\ Becomes(e, Returned(edit[e])) /\ Report(e, "saved")
    /\ UNCHANGED <<store, wire, start, note>>

\* The server refuses it, does not know the zone, or cannot be connected to.
PatchRejected(e) ==
    /\ edit[e].phase = "patch" /\ wire[e][At(e)].state = "waiting"
    /\ wire' = [wire EXCEPT ![e][At(e)].state = "dropped"]
    /\ Becomes(e, Returned(edit[e]))
    /\ Report(e, IF Backend[At(e)] \in Hosts THEN "error" ELSE "zone_missing")
    /\ UNCHANGED <<store, start, note>>

\* No answer within the timeout, or the connection breaks: only the primary is
\* looked at again.
PatchTimesOut(e) ==
    /\ edit[e].phase = "patch"
    /\ \/ IsPrimary(e) /\ Becomes(e, [edit[e] EXCEPT !.phase = "verify"]) /\ UNCHANGED result
       \/ ~IsPrimary(e) /\ Becomes(e, Returned(edit[e])) /\ Report(e, "error")
    /\ UNCHANGED <<store, wire, start, note>>

\* Mutant: the two comparisons are swapped.
Outcome_swapped(current, expected, known, before) ==
    IF known /\ current = before THEN "verified_after_timeout"
    ELSE IF current = expected THEN "error" ELSE "unclear"

\* Mutant: an unreadable state has a status of its own.
Outcome_unknown(current, expected, known, before) ==
    IF current = expected THEN "verified_after_timeout"
    ELSE IF known /\ current = before THEN "error" ELSE "unknown"

Outcome(current, expected, known, before) ==
    IF current = expected THEN "verified_after_timeout"
    ELSE IF known /\ current = before THEN "error" ELSE "unclear"

verify_after_transport_error(e) ==
    /\ edit[e].phase = "verify"
    /\ Becomes(e, Returned(edit[e]))
    /\ \/ Backend[At(e)] \in Hosts
          /\ Report(e, Outcome(store[Backend[At(e)]], wire[e][At(e)].rrset,
                               edit[e].known, edit[e].before))
       \/ Report(e, "unclear")   \* none of the three reads succeeds
    /\ UNCHANGED <<store, wire, start, note>>

\* The process dies, or an exception ends the request (the primary's builder raises).
Abandon(e) ==
    /\ Active(e)
    /\ Becomes(e, Ended(edit[e], "dead"))
    /\ UNCHANGED <<store, wire, result, start, note>>

------------------------------------------------------------------------------
(* Specification                                                            *)

Next == \E e \in Edits :
    \/ \E op \in Operations, p \in Servers : Begin(e, op, p)
    \/ \E s \in Servers : Turn(e, s) \/ Apply(e, s) \/ Drop(e, s)
    \/ End(e) \/ Read(e) \/ ReadFails(e) \/ PatchSaved(e) \/ PatchRejected(e)
    \/ PatchTimesOut(e) \/ verify_after_transport_error(e) \/ Abandon(e)

Spec == Init /\ [][Next]_vars

------------------------------------------------------------------------------
(* Properties                                                               *)

\* Values that exist on one server only are kept ("Werte, die nur dort existieren,
\* bleiben erhalten"): whatever edits interleave, time out or die, a value is gone from
\* a database only if some edit was asked to take it away.
Untouched(b) == {v \in start[b] : \A e \in Edits :
                    edit[e].phase # "idle" => v \notin Touches(edit[e].op)}

PeerValuesSurvive == \A b \in Hosts : Untouched(b) \subseteq store[b]

\* A peer is written only when the primary is, or meanwhile was, as the edit wants it
\* (require_primary), also when the answer of the primary was lost.
PeersFollowPrimary ==
    \A e \in Edits : edit[e].op.require_primary =>
        \A s \in Servers \ {edit[e].primary} : wire[e][s].state # "none" => note[e].held

\* Without another edit, what the primary confirmed is what it holds: no peer of
\* the same database and no PATCH that comes late undoes it.
ConfirmedIsKept ==
    \A e \in Edits : note[e].alone /\ PrimaryTook(e) =>
        Wanted(edit[e].op, store[Backend[edit[e].primary]])

\* Separate databases stay in step ("getrennte Backends bleiben synchron"): an edit
\* without another one that reports no error leaves equal databases equal.
Unfailed == {"saved", "verified_after_timeout", "no_changes", "no_match", "zone_missing"}

SyncedStaySynced ==
    \A e \in Edits :
        /\ note[e].alone /\ note[e].synced /\ edit[e].phase = "done"
        /\ PrimaryTook(e) /\ \A s \in Servers : result[e][s] \in Unfailed
        => InSync

\* What the bulk route and its documentation say of applied = false: the primary
\* surely did not take the edit over.
applied_false(e) ==
    /\ edit[e].op.kind = "bulk" /\ edit[e].phase = "done"
    /\ result[e][edit[e].primary] \in {"error", "zone_missing"}

FailedMeansUnwritten ==
    \A e \in Edits : applied_false(e) => wire[e][edit[e].primary].state # "applied"

==============================================================================
