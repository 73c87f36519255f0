SPECIFICATION CascadeSpec
CONSTANTS
  Session <- Sessions
  None = None
  Main = Main
  Call = {c1}
  MaxMain = 1
  Kinds = {"cascade", "resume"}
INVARIANTS ResumePropagates
CHECK_DEADLOCK FALSE
