SPECIFICATION FairSpec
CONSTANTS
  m = m  s1 = s1  s2 = s2  s3 = s3
  Proc = {m, s1, s2, s3}
  Master = m
  Letters <- Names
  Number <- Some
  Conf <- Ways
  Lists <- NodeLists
  Hosts <- Cluster
  Backlog = 2
  None = None  Cut = Cut  Dead = Dead
INVARIANTS TypeOK NoCircle SelectsByLevel GetFinds FlagsAsDocumented
PROPERTIES TreeGoesDown
CHECK_DEADLOCK FALSE
