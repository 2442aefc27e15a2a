SPECIFICATION FairSpec
CONSTANTS
  Threads = {t1, t2}
  Devices = {d1}
  NoFile = NoFile
  MAX_FILES = 2
  MAX_FILE_SIZE = 1
  Capacity = 2
  MaxClicks = 2
  MaxKills = 1
INVARIANTS
  TypeOK
  FlagFollowsThread
  
PROPERTY FillingEnds
