SPECIFICATION Spec
CONSTANTS
  t1 = t1
  t2 = t2
  c1 = c1
  c2 = c2
  Tasks = {t1, t2}
  Custom = {c1, c2}
  Scanned = {a1, a2}
  Cmds = {v1}
  Icons = {i1}
  NoFile = NoFile
  Torn = Torn
  None = None
  Mixes <- MCMixes
  MaxEvents = 3
SYMMETRY Alike
INVARIANTS SetIsKept HalvesAgree ListedResolves
CHECK_DEADLOCK FALSE
