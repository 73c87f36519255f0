\* One edit of the base, one sweep in flight: does the edit survive it?
SPECIFICATION BaseSpec
CONSTANTS
  Base = {main0, d}   NoBase = NoBase
  Editor = {e1}   Sweep = {k1}
  MaxEdits = 1   MaxBaseTrouble = 0
INVARIANT EditSurvivesSync
CHECK_DEADLOCK FALSE
