SPECIFICATION Spec
CONSTANTS
  s1 = s1  s2 = s2  s3 = s3  m = m  c1 = c1  c2 = c2
  Node = {s1, s2, s3}
  Master = m
  Parent <- ChainParent
  Above <- ChainAbove
  Cmd = {c1}
  Request <- Deep
  Faults = {"daemon"}
INVARIANTS WaitsForContacted
CHECK_DEADLOCK FALSE
