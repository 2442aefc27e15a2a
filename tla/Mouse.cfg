\* Up to two notifications and two positions queued, two resets by the host.
SPECIFICATION MouseFairSpec
CONSTANTS
  MaxNotices = 2
  MaxWords = 9
  MaxResets = 2
INVARIANT OffWhenDisabled
PROPERTY SharingComesBack
