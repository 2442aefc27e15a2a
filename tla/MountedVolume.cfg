\* A file, a directory or the root, written by two threads; one second before the
\* host's epoch (-2), one host time after the end of a time_t (15).
SPECIFICATION MountedSpec
CONSTANTS
  MaxCount = 2
  MaxChannels = 2
  Threads = {t1, t2}
  Perms = {"exec"}
  Sizes = {0, 1}
  Times = {"m_time"}
  HostTimes = {4, 15}
  Ticks = 3
  Epoch = 1
  Word = 16
  Limit = 2
INVARIANTS
  MountsAddUp
  AttributesAreAsGiven
  WindowIsUpToDate
