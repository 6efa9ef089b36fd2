CONSTANTS
  Sessions = {s1, s2}
  Handlers = {h1, h2}
  Tools = {"codex", "claude"}
  MaxLines = 2
  LastSecond = 2
SYMMETRY Symmetry
SPECIFICATION BoundedSpec
INVARIANTS ToolsTypeOK RequestsAreNoticed DeletionIsAMove
CHECK_DEADLOCK FALSE
