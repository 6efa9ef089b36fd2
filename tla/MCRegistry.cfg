CONSTANTS
  Handlers = {h1, h2}
  Devices = {d1, d2}
  Tokens = {t1, t2, t3}
  Codes = {c1, c2}
  Clients = {i1, i2}
  Grants = {g1, g2}
  Sessions = {s1}
  Users = {u1}
  Permissions = {"approve"}
  Keys = {k1, k2}
  Positions = {1}
  Contents = {x, y}
  Reports = {"running", "completed"}
  MaxRequests = 7
SYMMETRY Symmetry
SPECIFICATION Spec
INVARIANTS TypeOK OneTokenUnlessDisabled RacesLeaveOneRow AuditTellsWhatHappened
PROPERTIES NothingComesBack ImplementsRegistry
CHECK_DEADLOCK FALSE
