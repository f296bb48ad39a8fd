SPECIFICATION TimelySpec
CONSTANTS
  MaxSession = 1
  Workers = {w1, w2}
  w1 = w1
  w2 = w2
  Acceptor = acceptor
  Updater = updater
  Main = main
  NoThread = noThread
  Qsize = 1
  MaxGeneration = 1
  AssocMayFail = TRUE
SYMMETRY Symmetry
INVARIANT SessionCountAccurate
CHECK_DEADLOCK FALSE
