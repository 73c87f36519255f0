\* Two servers (or two tasks of one) clone to the same destination.
SPECIFICATION CloneSpec
CONSTANTS
  Request = {r1, r2}   Server = {u1, u2}   Dest = {d1}   NoJob = NoJob   User = {}
PROPERTY OnlyItsOwnClone
CHECK_DEADLOCK FALSE
