SPECIFICATION GuardSpec
CONSTANTS
  Users = {u1, u2}
  Requests = {q1, q2}
INVARIANTS AdminRemains
