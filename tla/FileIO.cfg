\* Two threads, two cookies and two handle numbers: closed handles come back.
SPECIFICATION FairSpec
CONSTANTS
  Threads = {t1, t2}
  Cookies = {c1, c2}
  Handles = {h1, h2}
  rootHandle = rootHandle
  Files = {f, g}
  IO_SIZE = 2
  MaxLength = 3
  MaxOthers = 0
  MaxEntries = 2
INVARIANTS
  TypeOK
  
  TransfersWhatItSays
  ListingIsWhole
PROPERTY EveryTransferReturns
