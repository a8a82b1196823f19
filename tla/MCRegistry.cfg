SPECIFICATION Spec
CONSTANTS
  Slave = {s1, s2}
  Addr = {a1, a2, a3}
  Cmd = {c1, c2}
  None = None
  Wanted <- Everyone
INVARIANTS TypeOK ServerResolves SteadySlavesStay
SYMMETRY Alike
CHECK_DEADLOCK FALSE
