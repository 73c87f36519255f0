\* Two comments, one on a file that leaves the diff: is what Apply marks what the agent was given?
SPECIFICATION FilesSpec
CONSTANTS
  f1 = f1   f2 = f2   v1 = v1   w1 = w1   k1 = k1   k2 = k2
  Caller = {c1}   File = {f1, f2}   Version <- VersionOf
  Absent = Absent   AnyContent = AnyContent   Unset = Unset
  Comment = {k1, k2}   FileOf <- CommentOn   Fits <- Anchors   Pins = {}   Partial = FALSE
  Ops = {"add", "apply"}   AgentStates = {"ready"}   MaxCalls = 1   MaxWriters = 1
INVARIANT AppliedMeansDelivered
CHECK_DEADLOCK FALSE
