SPECIFICATION FairSpec
CONSTANTS
  x = x  y = y
  Absent = Absent  Dir = Dir  Link = Link
  Chunk = {x, y}
  Hops = 2
  Manifest <- Sent
  Seen <- Reordered
  Content <- AtMaster
  Old <- Before
  Versions <- Rewritten
  Faults = {"vanish", "change", "read", "cut"}
INVARIANTS TypeOK InStep Intact
PROPERTIES KeepsTransfer CutIsNoticed Arrives
CHECK_DEADLOCK FALSE
