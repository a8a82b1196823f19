SPECIFICATION FairSpec
CONSTANTS
  Slave = {s1}
  Addr = {a1, a2, a3}
  Cmd = {c1}
  None = None
  Wanted <- Everyone
PROPERTIES DeadArePruned RegistrationEnds SlavesExitWithMaster
CHECK_DEADLOCK FALSE
