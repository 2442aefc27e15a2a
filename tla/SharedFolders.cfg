SPECIFICATION FairSpec
CONSTANTS
  Threads = {t1, t2}
  NoThread = NoThread
  maxIOSize = 4096
  Requests <- SomeRequests
  Answers <- SomeAnswers
INVARIANTS
  TypeOK
  TerminatorInBounds
  LocksBalanced
  ExchangeIsMine
PROPERTIES
  ImplementsService
  EveryCallReturns
