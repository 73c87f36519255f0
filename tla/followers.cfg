\* What follows changes made elsewhere: a review, a clone, a change feed, a view, main, branch names, a base.
SPECIFICATION FollowSpec
CONSTANTS
  f1 = f1   v1 = v1   v2 = v2   Absent = Absent   AnyContent = AnyContent   Unset = Unset
  Ui = Ui   Opener = Opener   Refresher = Refresher   Cli = Cli
  Caller = {Ui, Opener, Refresher, Cli}
  File = {f1}   Version <- OneFile   Pins <- PinIt
  Comment = {}   FileOf <- NoComment   Fits <- NoComment
  Partial = FALSE   Ops = {"open", "refresh", "set", "apply"}   ForeignOps = {"set"}
  AgentStates = {"ready"}   MaxCalls = 1   MaxWriters = 1
  Request = {r1, r2}   Server = {u1, u2}   Dest = {d1}   NoJob = NoJob   User = {anna}
  Forgotten = Forgotten   MaxChanges = 2   MaxRestarts = 2   PollFaults = {"wait", "hashes"}
  Unread = Unread   Nothing = Nothing   MaxBoard = 1   MaxObserved = 1   MaxFlying = 2   Happens = {"fail"}
  Process = {p1, p2}   MaxRemote = 1   MaxPullTrouble = 1
  t1 = t1   t2 = t2   n1 = n1   n2 = n2   main0 = main0
  Tree = {t1, t2}   Name = {main, n1, n2, n3}   Trunk = main   Poller = {i1, i2}   MaxGit = 1
  Base = {main0, d}   NoBase = NoBase   Editor = {e1}   Sweep = {k1, k2}   MaxEdits = 2   MaxBaseTrouble = 1
INVARIANTS FollowTypeOK 
PROPERTIES PollKeepsOwnMarks ViewCatchesUp SpinnerStops  RefreshConverges   EditLasts
CHECK_DEADLOCK FALSE
