SPECIFICATION FairSpec
CONSTANTS
  s1 = s1  s2 = s2  s3 = s3  m = m  c1 = c1  c2 = c2
  Node = {s1, s2}
  Master = m
  Parent <- PairParent
  Above <- PairAbove
  Cmd = {c1, c2}
  Request <- EveryoneTwice
  Faults = {}
INVARIANTS OneChildPerNode
PROPERTIES CommandsFinish DaemonsComeBack
CHECK_DEADLOCK FALSE
