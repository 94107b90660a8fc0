------------------------------- MODULE Dnssec -------------------------------
(***************************************************************************)
(* The DNSSEC card of a zone and its dialogs: the key table, the dialogs   *)
(* that enable, disable and add keys, and the rollover assistant, against  *)
(* the backend's handlers, which read the keys of the zone, test the       *)
(* protections and then write without a lock.  The zone uses CSK keys, so  *)
(* every key may carry the chain of trust; the ZSK track of the assistant, *)
(* a change of algorithm, the serial bump and the comparison with the      *)
(* peers are left out.                                                     *)
(*                                                                         *)
(* The people are careful: they publish and withdraw DS records when a     *)
(* dialog tells them to, tick only what is true when they tick it, use the *)
(* key table in a way that keeps the chain of trust on the screen, start   *)
(* the assistant only from a card without an error beside it, and know     *)
(* what it means to answer a safety question with yes (forced).            *)
(***************************************************************************)
EXTENDS Naturals, Sequences, FiniteSets

CONSTANTS KeyBound,       \* bound: ids of keys ever created
          ProbeBound,     \* bound: DNSKEY checks on their way at once
          HandBound,      \* bound: changes outside the assistant
          OtherKinds      \* what they do: create, activate, delete, deactivate

ASSUME DnssecAssumption ==
    /\ KeyBound \in Nat \ {0} /\ HandBound \in Nat
    /\ OtherKinds \subseteq {"create", "activate", "delete", "deactivate"}

KeyIds == 1..KeyBound

VARIABLES keys,        \* the keys on the server: there, active, published
          made,        \* how many ids the server has given out
          registrar,   \* the keys whose DS the parent zone publishes
          served,      \* the keys every name server of the zone serves
          status,      \* the keys the browser shows
          known,       \* no status yet, shown, or shown with an error beside
          reload,      \* the newest status request and what it read
          window,      \* which dialog is open
          ticks,       \* the ticked boxes and the step they belong to
          probes,      \* DNSKEY checks on their way
          results,     \* the answers of DNSKEY checks and their step
          job,         \* the requests of the button that was pressed
          capability,  \* are the DNS checks switched on in the panel
          forced,      \* someone overrode a warning
          byHand       \* changes begun outside the assistant, by anyone

dnssecVars == <<keys, made, registrar, served, status, known, reload, window,
                ticks, probes, results, job, capability, forced, byHand>>

zoneVars == <<keys, made, registrar, served>>
statusVars == <<status, known, reload>>
assistantVars == <<ticks, probes, results>>

KeyStates == [there : SUBSET KeyIds, active : SUBSET KeyIds, published : SUBSET KeyIds]
NoKeys == [there |-> {}, active |-> {}, published |-> {}]
Signing(z) == z.active \cap z.published

Checks == {"dnskey", "dnskeyDelete"}
Ticks == Checks \cup {"ds", "dsRemoved", "dnskeyForce", "dnskeyDeleteForce"}
ForceOf(name) == IF name = "dnskey" THEN "dnskeyForce" ELSE "dnskeyDeleteForce"

\* Some key whose DS the parent publishes signs the zone and is served.
Chain(z) == registrar # {} => registrar \cap Signing(z) \cap served # {}

-----------------------------------------------------------------------------
(* The backend. *)

\* Where a rollover stands, derived from the keys.
Track(z) ==
  LET inactive == z.there \ z.active
      Lowest(s) == CHOOSE k \in s : \A other \in s : k <= other
      Step(phase, old, new) == [phase |-> phase, old |-> old, new |-> new]
      a == Lowest(z.active)
      i == Lowest(inactive)
  IN IF z.there = {} THEN Step("none", 0, 0)
     ELSE IF z.active \ z.published # {} THEN Step("complex", 0, 0)
     ELSE IF z.active = {} THEN Step("no_active", 0, 0)
     ELSE IF Cardinality(z.there) > 2 THEN Step("complex", 0, 0)
     ELSE IF Cardinality(z.active) = 2
          THEN Step("both_active", a, CHOOSE k \in z.active : k # a)
     ELSE IF inactive = {} THEN Step("idle", a, 0)
     ELSE IF i < a THEN Step("old_retired", i, a)
     ELSE IF i \in z.published THEN Step("new_prepublished", a, i)
     ELSE Step("complex", 0, 0)

Ops == {"create", "enable", "activate", "deactivate", "publish", "unpublish",
        "delete", "disable", "nsec"}
OneKeyOps == {"activate", "deactivate", "publish", "unpublish", "delete"}
Request(op, key) == [op |-> op, key |-> key]

Without(z, gone) == [there |-> z.there \ gone, active |-> z.active \ gone,
                     published |-> z.published \ gone]

\* The keys after a request was carried out on z; id is the next free one.
After(z, req, id) ==
  CASE req.op = "create" -> [z EXCEPT !.there = @ \cup {id}, !.published = @ \cup {id}]
    [] req.op = "enable" -> [there |-> z.there \cup {id}, active |-> z.active \cup {id},
                             published |-> z.published \cup {id}]
    [] req.op = "activate" -> [z EXCEPT !.active = @ \cup {req.key}]
    [] req.op = "deactivate" -> [z EXCEPT !.active = @ \ {req.key}]
    [] req.op = "publish" -> [z EXCEPT !.published = @ \cup {req.key}]
    [] req.op = "unpublish" -> [z EXCEPT !.published = @ \ {req.key}]
    [] req.op = "delete" -> Without(z, {req.key})
    [] OTHER -> z

\* check_key_change: the last active and the last published active key.
Violated(z, z2) == \/ z.active # {} /\ z2.active = {}
                   \/ Signing(z) # {} /\ Signing(z2) = {}

\* (Mutant: switching off does not ask the parent zone.)
NeedsForce_noParent(z, req) ==
  /\ req.op \in OneKeyOps
  /\ Violated(z, After(z, req, 0))

\* A request needs force: a protection, or DS records still in the parent.
NeedsForce(z, req) ==
  \/ req.op \in OneKeyOps /\ Violated(z, After(z, req, 0))
  \/ req.op = "disable" /\ capability /\ z.there # {} /\ registrar # {}

\* The handler's other refusals, on the keys it read.
Impossible(z, req) ==
  \/ req.op \in OneKeyOps /\ req.key \notin z.there
  \/ req.op \in {"create", "nsec"} /\ z.there = {}
  \/ req.op = "enable" /\ z.there # {} /\ z.active = {}

\* Nothing to do: the key is already so, the zone already signed or unsigned.
Unchanged(z, req) ==
  \/ req.op \in {"activate", "deactivate", "publish", "unpublish", "nsec"} /\ After(z, req, 0) = z
  \/ req.op = "enable" /\ z.active # {}
  \/ req.op = "disable" /\ z.there = {}

\* What PowerDNS then does.  update_key always sends the active flag it
\* read, the published flag only when it changes; disable deletes the keys
\* it read.
Written(read, req) ==
  CASE req.op = "disable" -> Without(keys, read.there)
    [] req.op \in {"publish", "unpublish"} ->
         LET live == After(keys, req, 0)
         IN [live EXCEPT !.active = IF req.key \in read.active THEN @ \cup {req.key}
                                                               ELSE @ \ {req.key}]
    [] OTHER -> After(keys, req, made + 1)

SetKeys(z, req) ==
  /\ keys' = z
  /\ made' = IF req.op \in {"create", "enable"} THEN made + 1 ELSE made
  /\ served' = served \cap z.published
  /\ UNCHANGED registrar

-----------------------------------------------------------------------------
(* What the browser derives from its status. *)

NoJob == [from |-> "none", todo |-> <<>>, at |-> "idle", force |-> FALSE,
          read |-> NoKeys, wrote |-> FALSE]
NoReload == [stage |-> "none", keys |-> NoKeys]
NoTicks == [key |-> Track(NoKeys), set |-> {}]
NoResults == [key |-> Track(NoKeys), ok |-> {}, failed |-> {}, busy |-> "none"]

PhaseKey == Track(status)

\* Boxes and answers count only in the step they were given for.
CurrentTicks == IF ticks.key = PhaseKey THEN ticks.set ELSE {}
ResultsFor(key) == IF results.key = key THEN results ELSE [NoResults EXCEPT !.key = key]
CurrentResults == ResultsFor(PhaseKey)

\* A DNSKEY step: by hand when the check is off, else its answer, or force.
Passed(name) ==
  IF ~capability THEN name \in CurrentTicks
  ELSE \/ name \in CurrentResults.ok
       \/ name \in CurrentResults.failed /\ ForceOf(name) \in CurrentTicks

ActionAllowed ==
  LET phase == PhaseKey.phase
  IN \/ phase = "idle"
     \/ phase \in {"new_prepublished", "both_active"} /\ Passed("dnskey") /\ "ds" \in CurrentTicks
     \/ phase = "old_retired" /\ "dsRemoved" \in CurrentTicks /\ Passed("dnskeyDelete")

Loading == reload.stage # "none"
Busy == job # NoJob
Locked == Busy \/ Loading

DnssecInit ==
  \E z \in {NoKeys, [there |-> {1}, active |-> {1}, published |-> {1}]}, on \in BOOLEAN :
    /\ keys = z /\ registrar = z.there /\ served = z.there /\ status = z
    /\ made = Cardinality(z.there)
    /\ known = "yes" /\ reload = NoReload /\ window = "none"
    /\ ticks = NoTicks /\ probes = {} /\ results = NoResults
    /\ job = NoJob /\ capability = on /\ forced = FALSE /\ byHand = 0

-----------------------------------------------------------------------------
(* The status.  A newer request replaces the one on its way, whose answer  *)
(* is dropped by its number.                                               *)

AskStatus == reload' = [stage |-> "asked", keys |-> NoKeys]

LoadStatus ==   \* the card's button, or the zone was loaded again
  /\ window = "none" /\ job = NoJob /\ ~Loading
  /\ AskStatus
  /\ UNCHANGED <<keys, made, registrar, served, status, known, window, ticks, probes,
                 results, job, capability, forced, byHand>>

StatusRead ==
  /\ reload.stage = "asked"
  /\ reload' = [stage |-> "read", keys |-> keys]
  /\ UNCHANGED <<keys, made, registrar, served, status, known, window, ticks, probes,
                 results, job, capability, forced, byHand>>

\* The button that waits for the new status is free again.
JobAfterReload == IF job.at = "reload" THEN NoJob ELSE job

StatusArrives ==
  /\ reload.stage = "read"
  /\ status' = reload.keys /\ known' = "yes" /\ reload' = NoReload
  /\ job' = JobAfterReload
  /\ UNCHANGED <<keys, made, registrar, served, window, ticks, probes, results,
                 capability, forced, byHand>>

StatusFails ==
  /\ Loading
  /\ known' = "failed" /\ reload' = NoReload
  /\ job' = JobAfterReload
  /\ UNCHANGED <<keys, made, registrar, served, status, window, ticks, probes, results,
                 capability, forced, byHand>>

-----------------------------------------------------------------------------
(* The dialogs. *)

\* The card shows the state without an error or a spinner beside it.
CardTrusted == known = "yes" /\ ~Loading

OpenDnssec(w) ==
  /\ window = "none" /\ job = NoJob
  /\ \/ w = "ds"
     \/ w = "enable" /\ status.there = {}
     \/ w \in {"disable", "addKey", "nsec"} /\ status.there # {}
     \/ w = "rollover" /\ status.active # {} /\ known = "yes"
  /\ window' = w
  /\ ticks' = NoTicks /\ probes' = {} /\ results' = NoResults
  /\ UNCHANGED <<keys, made, registrar, served, status, known, reload, job, capability,
                 forced, byHand>>

\* Not while a request is on its way.
CloseDnssec ==
  /\ window # "none" /\ job = NoJob
  /\ window' = "none"
  /\ ticks' = NoTicks /\ probes' = {} /\ results' = NoResults
  /\ UNCHANGED <<keys, made, registrar, served, status, known, reload, job, capability,
                 forced, byHand>>

SetTicks(set) == ticks' = [key |-> PhaseKey, set |-> set]

\* What is true when the box is ticked; a force box asks once more.
Truthful(box) ==
  CASE box = "ds" -> PhaseKey.new \in registrar
    [] box = "dsRemoved" -> PhaseKey.old \notin registrar
    [] OTHER -> PhaseKey.new \in served

BoxShown(box) ==
  LET phase == PhaseKey.phase
  IN \/ box = "ds" /\ phase \in {"new_prepublished", "both_active"}
     \/ box = "dsRemoved" /\ phase = "old_retired"
     \/ \E name \in Checks :
          /\ IF name = "dnskey" THEN phase \in {"new_prepublished", "both_active"}
                                ELSE phase = "old_retired"
          /\ IF capability THEN box = ForceOf(name) /\ name \in CurrentResults.failed
                           ELSE box = name

TickBox(box) ==
  /\ window = "rollover" /\ ~Locked /\ BoxShown(box)
  /\ \/ box \in CurrentTicks /\ SetTicks(CurrentTicks \ {box}) /\ UNCHANGED forced
     \/ /\ box \notin CurrentTicks /\ SetTicks(CurrentTicks \cup {box})
        /\ IF box \in {ForceOf(name) : name \in Checks}
           THEN forced' = TRUE ELSE Truthful(box) /\ UNCHANGED forced
  /\ UNCHANGED <<keys, made, registrar, served, status, known, reload, window, probes,
                 results, job, capability, byHand>>

\* The disable dialog's box says the DS is gone; where the panel asks the
\* parent zone itself, someone ticks it unread.
TickDisable ==
  /\ window = "disable" /\ ~Busy /\ "dsRemoved" \notin ticks.set
  /\ capability \/ registrar = {}
  /\ ticks' = [key |-> NoTicks.key, set |-> {"dsRemoved"}]
  /\ UNCHANGED <<keys, made, registrar, served, status, known, reload, window, probes,
                 results, job, capability, forced, byHand>>

\* runDnskeyCheck: the answer is filed under the step it was asked in.
StartCheck(name) ==
  /\ window = "rollover" /\ capability /\ ~Locked /\ CurrentResults.busy = "none"
  /\ PhaseKey.phase \in (IF name = "dnskey" THEN {"new_prepublished", "both_active"}
                                            ELSE {"old_retired"})
  /\ Cardinality(probes) < ProbeBound
  /\ probes' = probes \cup {[name |-> name, key |-> PhaseKey]}
  /\ results' = [CurrentResults EXCEPT !.busy = name]
  /\ UNCHANGED <<keys, made, registrar, served, status, known, reload, window, ticks,
                 job, capability, forced, byHand>>

CheckAnswered(p) ==
  LET prev == ResultsFor(p.key)
      good == p.key.new \in served
  IN /\ p \in probes /\ probes' = probes \ {p}
     /\ \/ results' = [prev EXCEPT !.busy = "none",
                         !.ok = IF good THEN @ \cup {p.name} ELSE @ \ {p.name},
                         !.failed = IF good THEN @ \ {p.name} ELSE @ \cup {p.name}]
        \/ results' = [prev EXCEPT !.busy = "none", !.ok = @ \ {p.name},
                                   !.failed = @ \cup {p.name}]   \* the request failed
     /\ UNCHANGED <<keys, made, registrar, served, status, known, reload, window, ticks,
                    job, capability, forced, byHand>>

-----------------------------------------------------------------------------
(* The buttons. *)

ByHand == byHand < HandBound /\ byHand' = byHand + 1
Begin(from, todo) == job' = [NoJob EXCEPT !.from = from, !.todo = todo, !.at = "sent"]

\* switchKeys: the new key goes on before the old one goes off.
SwitchRequests(old, new) == <<Request("activate", new), Request("deactivate", old)>>

StartRollover ==
  /\ window = "rollover" /\ ~Locked /\ ActionAllowed
  /\ LET p == PhaseKey
         todo == CASE p.phase = "idle" -> <<Request("create", 0)>>
                   [] p.phase = "new_prepublished" -> SwitchRequests(p.old, p.new)
                   [] p.phase = "both_active" -> <<Request("deactivate", p.old)>>
                   [] OTHER -> <<Request("delete", p.old)>>
     IN Begin("assistant", todo)
  /\ UNCHANGED <<keys, made, registrar, served, status, known, reload, window, ticks,
                 probes, results, capability, forced, byHand>>

\* The key table, used so that the chain of trust on the screen stays.
TableAction(op, k) ==
  /\ window = "none" /\ job = NoJob /\ CardTrusted /\ k \in status.there
  /\ \/ op = "deactivate" /\ k \in status.active
     \/ op = "activate" /\ k \notin status.active
     \/ op = "unpublish" /\ k \in status.published
     \/ op = "publish" /\ k \notin status.published
     \/ op = "delete"
  /\ Chain(After(status, Request(op, k), 0))
  /\ ByHand /\ Begin("table", <<Request(op, k)>>)
  /\ UNCHANGED <<keys, made, registrar, served, status, known, reload, window, ticks,
                 probes, results, capability, forced>>

DialogOp == CASE window = "enable" -> "enable" [] window = "disable" -> "disable"
              [] window = "addKey" -> "create" [] OTHER -> "nsec"

SubmitDnssec ==
  /\ window \in {"enable", "disable", "addKey", "nsec"} /\ job = NoJob
  /\ window = "disable" => "dsRemoved" \in ticks.set
  /\ ByHand /\ Begin("dialog", <<Request(DialogOp, 0)>>)
  /\ UNCHANGED <<keys, made, registrar, served, status, known, reload, window, ticks,
                 probes, results, capability, forced>>

\* The handler reads the keys and tests them; op(true) skips the question.
BackendReads ==
  LET req == Head(job.todo)
      next == IF Impossible(keys, req) THEN "failed"
              ELSE IF Unchanged(keys, req) THEN "answered"
              ELSE IF NeedsForce(keys, req) /\ ~job.force THEN "asks"
              ELSE "checked"
  IN /\ job.at = "sent"
     /\ job' = [job EXCEPT !.at = next, !.read = IF next = "checked" THEN keys ELSE NoKeys]
     /\ UNCHANGED <<keys, made, registrar, served, status, known, reload, window, ticks,
                    probes, results, capability, forced, byHand>>

\* It writes; a key that is gone by then is an error of PowerDNS.
BackendWrites ==
  LET req == Head(job.todo)
  IN /\ job.at = "checked"
     /\ \/ /\ ~Impossible(keys, req) \/ req.op = "enable"
           /\ req.op \in {"enable", "create"} => made < KeyBound
           /\ SetKeys(Written(job.read, req), req)
           /\ job' = [job EXCEPT !.at = "answered", !.wrote = TRUE, !.read = NoKeys]
        \/ /\ req.op = "disable"   \* it stops between two keys, inactive ones first
           /\ \E gone \in SUBSET job.read.there :
                /\ gone \cap job.read.active # {} => job.read.there \ job.read.active \subseteq gone
                /\ SetKeys(Without(keys, gone), req)
           /\ job' = [job EXCEPT !.at = "failed", !.read = NoKeys]
        \/ job' = [job EXCEPT !.at = "failed", !.read = NoKeys] /\ UNCHANGED zoneVars
     /\ UNCHANGED <<status, known, reload, window, ticks, probes, results, capability,
                    forced, byHand>>

\* withForce: yes sends the request again, no ends the whole button.
AnswerQuestion(yes) ==
  /\ job.at = "asks"
  /\ IF yes THEN job' = [job EXCEPT !.at = "sent", !.force = TRUE] /\ forced' = TRUE
            ELSE job' = [job EXCEPT !.at = "declined"] /\ UNCHANGED forced
  /\ UNCHANGED <<keys, made, registrar, served, status, known, reload, window, ticks,
                 probes, results, capability, byHand>>

NextRequest ==
  /\ job.at = "answered" /\ Len(job.todo) > 1
  /\ job' = [job EXCEPT !.todo = Tail(job.todo), !.at = "sent", !.force = FALSE]
  /\ UNCHANGED <<keys, made, registrar, served, status, known, reload, window, ticks,
                 probes, results, capability, forced, byHand>>

\* The assistant always reads the status again, the table after a success,
\* a dialog closes and does so after a success, and only the disable dialog
\* after an error.
JobEnds ==
  /\ \/ job.at = "answered" /\ Len(job.todo) = 1
     \/ job.at \in {"failed", "declined"}
  /\ LET good == job.at = "answered"
         last == Head(job.todo).op
     IN /\ window' = IF job.from = "dialog" /\ good
                     THEN (IF last = "enable" /\ job.wrote THEN "ds" ELSE "none") ELSE window
        /\ IF job.from = "assistant" \/ (job.from = "table" /\ good)
           THEN job' = [job EXCEPT !.at = "reload"] /\ AskStatus
           ELSE /\ job' = NoJob
                /\ IF good \/ (last = "disable" /\ job.at = "failed")
                   THEN AskStatus ELSE UNCHANGED reload
  /\ UNCHANGED <<keys, made, registrar, served, status, known, ticks, probes, results,
                 capability, forced, byHand>>

-----------------------------------------------------------------------------
(* Outside the browser. *)

\* The DS dialog recommends the current keys; the assistant asks for the DS
\* of the new key beside the others.  One of them belongs to a key in use.
PublishDs(k) ==
  /\ k \in KeyIds \ registrar
  /\ \/ window = "ds" /\ CardTrusted /\ k \in Signing(status)
     \/ window = "rollover" /\ PhaseKey.phase \in {"new_prepublished", "both_active"} /\ k = PhaseKey.new
        /\ registrar # {}
  /\ (registrar \cup {k}) \cap Signing(status) \cap served # {}
  /\ registrar' = registrar \cup {k}
  /\ UNCHANGED <<keys, made, served, status, known, reload, window, ticks, probes,
                 results, job, capability, forced, byHand>>

WithdrawDs(gone) ==
  /\ gone # {} /\ gone \subseteq registrar /\ job = NoJob
  /\ \/ window = "disable" /\ gone = registrar
     \/ window = "rollover" /\ PhaseKey.phase = "old_retired" /\ gone = {PhaseKey.old}
  /\ registrar' = registrar \ gone
  /\ UNCHANGED <<keys, made, served, status, known, reload, window, ticks, probes,
                 results, job, capability, forced, byHand>>

\* The name servers take over the published keys.
Propagate ==
  /\ served # keys.published
  /\ served' = keys.published
  /\ UNCHANGED <<keys, made, registrar, status, known, reload, window, ticks, probes,
                 results, job, capability, forced, byHand>>

\* Other administrators, who keep the chain of trust themselves.
OthersChangeKeys ==
  /\ ByHand
  /\ \E op \in OtherKinds, k \in KeyIds :
       LET req == Request(op, k)
       IN /\ op = "create" => made < KeyBound
          /\ op = "delete" => k \notin keys.active
          /\ ~Impossible(keys, req) /\ ~NeedsForce(keys, req)
          /\ After(keys, req, made + 1) # keys
          /\ Chain(After(keys, req, made + 1))
          /\ SetKeys(After(keys, req, made + 1), req)
  /\ UNCHANGED <<status, known, reload, window, ticks, probes, results, job, capability,
                 forced>>

DnssecNext ==
  \/ LoadStatus \/ StatusRead \/ StatusArrives \/ StatusFails
  \/ \E w \in {"ds", "enable", "disable", "addKey", "nsec", "rollover"} : OpenDnssec(w)
  \/ CloseDnssec \/ TickDisable \/ \E box \in Ticks : TickBox(box)
  \/ \E name \in Checks : StartCheck(name)
  \/ \E p \in probes : CheckAnswered(p)
  \/ StartRollover \/ SubmitDnssec
  \/ \E op \in OneKeyOps, k \in KeyIds : TableAction(op, k)
  \/ BackendReads \/ BackendWrites \/ NextRequest \/ JobEnds
  \/ \E yes \in BOOLEAN : AnswerQuestion(yes)
  \/ \E k \in KeyIds : PublishDs(k)
  \/ \E gone \in SUBSET KeyIds : WithdrawDs(gone)
  \/ Propagate \/ OthersChangeKeys

DnssecSpec == DnssecInit /\ [][DnssecNext]_dnssecVars

-----------------------------------------------------------------------------
(* Properties. *)

\* Every variable keeps its shape.
DnssecTypeOK ==
  /\ keys \in KeyStates /\ status \in KeyStates /\ reload.keys \in KeyStates
  /\ made \in 0..KeyBound /\ registrar \subseteq KeyIds /\ served \subseteq keys.published
  /\ known \in {"yes", "failed"} /\ reload.stage \in {"none", "asked", "read"}
  /\ window \in {"none", "ds", "enable", "disable", "addKey", "nsec", "rollover"}
  /\ ticks.set \subseteq Ticks /\ results.ok \cap results.failed = {}
  /\ job.at \in {"idle", "sent", "checked", "asks", "answered", "failed", "declined", "reload"}
  /\ capability \in BOOLEAN /\ forced \in BOOLEAN /\ byHand \in 0..HandBound

\* As long as nobody overrides a warning, the zone validates: while the
\* parent publishes DS records, one of their keys signs the zone and is
\* served by every name server.  This holds through rollovers that stop
\* half-way, a status that could not be read, checks that answer late and
\* other administrators who create, activate and delete keys meanwhile
\* (DnssecRolloverModal.jsx, dnssecModel.js rolloverActionAllowed,
\* routers/dnssec.py).  It does not hold when they also deactivate them: the
\* protections are checked on the keys a handler has read, before it writes.
ChainOfTrust == ~forced => Chain(keys)

NobodyForced == ~forced

=============================================================================
