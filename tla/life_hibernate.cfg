\* Hibernation racing an attach.
SPECIFICATION Spec
CONSTANTS
  s1 = s1   s2 = s2   o1 = o1   o2 = o2   None = None
  Session = {s1}
  Op = {o1, o2}
  Workloads <- Waking
  ResumeSession = FALSE
INVARIANT LivePaneNotHibernated
CHECK_DEADLOCK FALSE
