SPECIFICATION Spec
CONSTANTS
  MaxSession = 1
  Workers = {w1, w2}
  w1 = w1
  w2 = w2
  Acceptor = acceptor
  Updater = updater
  Main = main
  NoThread = noThread
  Qsize = 2
  MaxGeneration = 2
  AssocMayFail = FALSE
SYMMETRY Symmetry
INVARIANT TypeOK
PROPERTY OnlyLateSendsStray
CHECK_DEADLOCK FALSE
