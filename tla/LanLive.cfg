SPECIFICATION LiveSpec
CONSTANTS
  MaxSession = 1
  Workers = {w1, w2}
  w1 = w1
  w2 = w2
  Acceptor = acceptor
  Updater = updater
  Main = main
  NoThread = noThread
  Qsize = 1
  MaxGeneration = 2
  AssocMayFail = FALSE
INVARIANT SessionCountAccurate
PROPERTY ClosedSlotReturns
PROPERTY HandlersReturn
CHECK_DEADLOCK FALSE
