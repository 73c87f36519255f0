\* The configuration, PR metadata, the TUI's view, reviewed marks and comments: what several callers share.
SPECIFICATION ServicesSpec
CONSTANTS
  Thread = {t1, t2}   Edit = {e1, e2}   HandEdit = {h1}   Nobody = Nobody   MaxWrites = 3
  Process = {p1, p2}   Check = {q1, q2}   Session = {s1}   Provider = {gh, gl}
  None = None   Failed = Failed   MaxVersion = 2   MaxClock = 1   Faults = {"crash", "store"}
  f1 = f1   f2 = f2   v1 = v1   v2 = v2   w1 = w1   k1 = k1   Absent = Absent   AnyContent = AnyContent
  Unset = Unset   Caller = {c1, c2}   File = {f1, f2}   Version <- TwoFiles   Pins <- OneOrTwo
  Comment = {k1}   FileOf <- NoteOn   Fits <- Anchor   Partial = TRUE
  Ops = {"open", "refresh", "set", "toggle", "apply", "add", "delete"}
  AgentStates = {"ready", "prompt", "stopped"}   MaxCalls = 2   MaxWriters = 1
  Unread = Unread   Nothing = Nothing   MaxBoard = 1   MaxObserved = 1   MaxFlying = 2
  Happens = {"create", "attach"}
INVARIANTS ServicesTypeOK NoConfigWakeLost MetadataOfProvider NoOlderThanItsCheck ApprovalOfThisHead
  CreatedIsNotDropped 
  
SYMMETRY Symmetric
CHECK_DEADLOCK FALSE
