SPECIFICATION FairSpec
CONSTANTS
  s1 = s1
  s2 = s2
  t1 = t1
  t2 = t2
  None = None
  Sessions = {s1, s2}
  Tables = {t1, t2}
  Dropped = {t2}
  MaxReqs = 2
  MaxVersion = 1
  Faults = {"commit"}
  Statements <- CrossingStatements
PROPERTIES
  DropCompletes
  PublishesCurrent
INVARIANTS
  LockProtocolInv
