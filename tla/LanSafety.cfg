SPECIFICATION TimelySpec
CONSTANTS
  MaxSession = 1
  Workers = {w1, w2, w3}
  w3 = w3
  w1 = w1
  w2 = w2
  Acceptor = acceptor
  Updater = updater
  Main = main
  NoThread = noThread
  Qsize = 2
  MaxGeneration = 2
  AssocMayFail = TRUE
SYMMETRY Symmetry
INVARIANT TypeOK
INVARIANT RefCountExact
INVARIANT PoolExact
INVARIANT OneCloser
INVARIANT OneReceive
INVARIANT OneSend
INVARIANT NoStaleDelivery
INVARIANT NoLostWakeup
PROPERTY AnnouncesInOrder
CHECK_DEADLOCK FALSE
