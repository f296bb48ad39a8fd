SPECIFICATION MainLiveSpec
CONSTANTS
  MaxSession = 2
  Workers = {w1}
  Main = main
  Stat = stat
  w1 = w1
  MAXIMUM_WAIT_OBJECTS = 1
  StartMayFail = TRUE
  Acceptor = acceptor
  Updater = updater
  NoThread = noThread
  Qsize = 1
  MaxGeneration = 1
  AssocMayFail = FALSE
PROPERTY StopReturns
PROPERTY SlotReturnsOrStop
INVARIANT EverySessionLeft
INVARIANT StopKeepsCount
INVARIANT CountWhileRunning
CHECK_DEADLOCK FALSE
