SPECIFICATION PagesSpec
CONSTANTS
  e1 = e1
  e2 = e2
  Unsafe = {"uid", "cn"}
  Targets = {"t1", "t2"}
  OthersBound = 1
  Vals = {a}
  LoadBound = 2
  ZoneOthers = 1
  BulkVals = {a, b}
  BulkOthers = 1
  TextBound = 3
  EntryBound = 2
  FocusEntries = {e1, e2}
  Days = {0, 1, 2}
  RetentionOthers = 1
  RRsets = {r1, r2}
  RollbackOthers = 2
  Servers = {n1, n2}
  RecordBound = 2
  KeyBound = 3
  ProbeBound = 1
  HandBound = 1
  OtherKinds = {"create", "activate", "delete"}
  Items = {i1, i2}
  SecretBound = 2
  Cards = {"tokens", "acme", "metrics", "password"}
  Plain = {"name"}
  TokenOthers = 2
  Categories = {"record"}
  Events = {e1, e2}
  CategoryOf <- OneCategory
  OldMatches = {e1}
  LogFilters = {"all", "dead"}
  LoadsBound = 2
  Users = {u1}
  Zones = {z1}
  GrantOthers = 1
CONSTRAINT PagesBounds
INVARIANTS PagesTypeOK  ShownIsTrue FormatsRoundTrip StoredAsMeant OverwriteWasTicked  
  
CHECK_DEADLOCK FALSE
