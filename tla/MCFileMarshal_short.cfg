SPECIFICATION Spec
CONSTANTS
  x = x  y = y
  Absent = Absent  Dir = Dir  Link = Link
  Chunk = {x, y}
  Hops = 2
  Manifest <- Sent
  Seen <- Reordered
  Content <- AtMaster
  Old <- Before
  Versions <- Rewritten
  Faults = {"read"}
INVARIANT SameData
CHECK_DEADLOCK FALSE
