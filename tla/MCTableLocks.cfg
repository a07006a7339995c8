SPECIFICATION Spec
CONSTANTS
  s1 = s1
  s2 = s2
  t1 = t1
  t2 = t2
  None = None
  Sessions = {s1, s2}
  Tables = {t1}
  Dropped = {t1}
  MaxReqs = 2
  MaxVersion = 1
  Faults = {"kill", "flush", "close", "open", "commit"}
  Statements <- EveryStatement
SYMMETRY Symmetry
INVARIANTS
  TypeOK
  WriterIsAlone
  NoLeakedLock
  SharesRegistered
