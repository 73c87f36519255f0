\* Each instance does one thing at a time: what the poll guarantees then.
SPECIFICATION FairSpec
CONSTANTS
  a = a   b = b   a1 = a1   a2 = a2   b1 = b1
  title = title   checked = checked   install = install   v1 = v1   v2 = v2
  Unset = Unset   None = None   Reload = Reload
  Field <- MCField
  Hidden = {checked}
  InstallId = install
  Value = {v1, v2}
  Process = {a, b}
  Task = {a1, b1}
  Host <- MCHost
  Mutator = {a1, b1}
  Reloader = {a1, b1}
  Cancellable = {}
  Job <- RewriteJobs
  Running = {a, b}
  Subscribed = {b}
  MaxWrites = 2
  MaxStarts = 0
INVARIANT PollTellsTheTruth
PROPERTY ReturnsAndShows
CHECK_DEADLOCK FALSE
