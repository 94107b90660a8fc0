------------------------------- MODULE MCFanout -------------------------------
(* Instances of Fanout for TLC.                                              *)
EXTENDS Fanout, TLC

CONSTANTS s1, s2, s3, s4, b1, b2, b3, x, y, e1, e2

\* Two servers share a database, the last one does not have the zone; or one
\* database each.
SharedBackend == [s \in Servers |-> IF s = s3 THEN b2 ELSE IF s = s4 THEN b3 ELSE b1]
OwnBackends   == [s \in Servers |-> IF s = s2 THEN b2 ELSE b1]

Op(kind, old, new, require) == [kind |-> kind, old |-> old, new |-> new, require_primary |-> require]

AllOperations == {Op("create", x, x, TRUE), Op("bulk", y, y, TRUE), Op("update", x, y, TRUE),
                  Op("delete", x, x, TRUE), Op("clear", x, x, TRUE), Op("set", x, y, FALSE),
                  Op("set", x, x, TRUE)}
KeepingOperations == {Op("create", x, x, TRUE), Op("delete", x, x, TRUE)}
BulkOperations    == {Op("bulk", y, y, TRUE)}

EditSymmetry == Permutations(Edits)

==============================================================================
