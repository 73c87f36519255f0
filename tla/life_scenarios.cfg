\* Two calls racing on a session; a creation raced; calls one at a time; calls cut short.
SPECIFICATION Spec
CONSTANTS
  s1 = s1   s2 = s2   o1 = o1   o2 = o2   None = None
  Session = {s1, s2}
  Op = {o1, o2}
  Workloads <- Scenarios
  ResumeSession = FALSE
INVARIANTS TypeOK SerialPanesAgree MarkerMeansStopped 
PROPERTIES  ReconcileRepairs
SYMMETRY Symmetric
CHECK_DEADLOCK FALSE
