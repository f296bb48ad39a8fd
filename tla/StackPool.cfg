SPECIFICATION LiveSpec
CONSTANTS
  Threads = {t1, t2}
  Values = {v1, v2}
  Nodes = {a1, a2, a3}
  nullptr = nullptr
  NoValue = NoValue
  StampMod = 4
INVARIANTS
  NodesExact
  StampTellsReuse
PROPERTIES
  ActsAtomically
  LockFree
