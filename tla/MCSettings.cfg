CONSTANTS
  Handlers = {h1}
  Commands = {c1}
  Accounts = {a1}
  None = None
  Programs = {"agent", "desktop"}
  MaxAtOnce = 2
SPECIFICATION Spec
INVARIANTS LogoutSticks RegistrationFollowsTheFile
CHECK_DEADLOCK FALSE
