------------------------------- MODULE MCBackend -------------------------------
(***************************************************************************)
(* DynDNS, the zone index and the guards of the administrators, for TLC.   *)
(* They share no state, so a behaviour runs one of them, the part, and     *)
(* leaves the others in one initial state: the states are the sum of       *)
(* theirs.                                                                 *)
(***************************************************************************)
EXTENDS DynDns, ZoneIndex, AdminGuard

VARIABLE part

Parts == {"dyndns", "index", "accounts"}

allVars == <<dynVars, indexVars, guardVars, part>>

\* What a part may start with is chosen only where it runs.
BackendInit ==
    /\ part \in Parts
    /\ DynInit
    /\ part # "dyndns" => latest = wan /\ wan = CHOOSE a \in Addresses : TRUE
    /\ IndexInit
    /\ GuardInit
    /\ part # "accounts" => /\ \A u \in Users : account[u] = NewAccount
                            /\ \A r \in Requests : request[r] = Idle(CHOOSE u \in Users : TRUE)

BackendNext ==
    \/ part = "dyndns" /\ DynNext /\ UNCHANGED <<indexVars, guardVars, part>>
    \/ part = "index" /\ IndexNext /\ UNCHANGED <<dynVars, guardVars, part>>
    \/ part = "accounts" /\ GuardNext /\ UNCHANGED <<dynVars, indexVars, part>>

\* The fairness of the parts that are running (DynFairness, IndexFairness).
BackendFairness ==
    /\ \A u \in Updates : /\ WF_dynVars(part = "dyndns" /\ Ping(u))
                          /\ WF_dynVars(part = "dyndns" /\ UpdateStep(u))
    /\ \A r \in Readers :
          /\ SF_indexVars(part = "index" /\ Enter(r))
          /\ WF_indexVars(part = "index" /\ (ServerLists(r) \/ ListArrives(r) \/ ListFails(r)))

BackendSpec == BackendInit /\ [][BackendNext]_allVars /\ BackendFairness

\* The part that runs has the types of its module.
BackendTypeOK ==
    CASE part = "dyndns" -> DynTypeOK
      [] part = "index" -> IndexTypeOK
      [] part = "accounts" -> GuardTypeOK

================================================================================
