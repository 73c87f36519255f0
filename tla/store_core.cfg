\* Crash, restart, cancellation and failure with two processes.
SPECIFICATION Spec
CONSTANTS
  a = a   b = b   a1 = a1   a2 = a2   b1 = b1
  title = title   checked = checked   install = install   v1 = v1   v2 = v2
  Unset = Unset   None = None   Reload = Reload
  Field <- MCField
  Hidden = {checked}
  InstallId = install
  Value = {v1, v2}
  Process = {a, b}
  Task = {a1, a2, b1}
  Host <- MCHost
  Mutator = {a1, b1}
  Reloader = {a2}
  Cancellable = {b1}
  Job <- MixedJobs
  Running = {a}
  Subscribed = {a}
  MaxWrites = 2
  MaxStarts = 1
INVARIANTS TypeOK StampedSnapshot NoLostWakeup
PROPERTIES Linearizable InstallIdStable
CHECK_DEADLOCK FALSE
