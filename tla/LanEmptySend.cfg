SPECIFICATION TimelySpec
CONSTANTS
  MaxSession = 1
  Workers = {w1, w2}
  w1 = w1
  w2 = w2
  Acceptor = acceptor
  Updater = updater
  Main = main
  NoThread = noThread
  Qsize = 2
  MaxGeneration = 1
  AssocMayFail = FALSE
SYMMETRY Symmetry
INVARIANT NoEmptySend
CHECK_DEADLOCK FALSE
