SPECIFICATION StacksSpec
CONSTANTS
  Session <- Sessions
  None = None
  Main = Main
  Call = {c1}
  MaxMain = 1
  Kinds = {"cascade", "resume", "abandon", "push", "delete", "crash"}
INVARIANTS
  CascadeTypeOK
  ChainCoversStack
  CascadePropagates
  BusyIsOwned
  PushedFromTheBase

  
  
  
CHECK_DEADLOCK FALSE
