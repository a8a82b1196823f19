SPECIFICATION Spec
CONSTANTS
  a = a  b = b  p = p  t = t  o = o
  Type = {a, b, p, t, o}
  Target = t
  Decls <- Programs
  Args = {a, b, p}
INVARIANTS TypeOK CacheSound NothingMissed DummyUncalled
