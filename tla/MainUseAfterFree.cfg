SPECIFICATION MainSpec
CONSTANTS
  MaxSession = 1
  Workers = {w1}
  Main = main
  Stat = stat
  w1 = w1
  MAXIMUM_WAIT_OBJECTS = 1
  StartMayFail = FALSE
  Acceptor = acceptor
  Updater = updater
  NoThread = noThread
  Qsize = 1
  MaxGeneration = 1
  AssocMayFail = FALSE
INVARIANT NoUseAfterFree
CHECK_DEADLOCK FALSE
