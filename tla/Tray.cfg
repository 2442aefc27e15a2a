\* Three copies of two texts, and the user turning sharings on and off, with a
\* looper and a runner that keep going.
SPECIFICATION TrayFairSpec
CONSTANTS
  Texts = {"a", "b"}
  NoText = NoText
  MaxMessages = 3
  MaxCopies = 3
INVARIANTS
  RunnersFollowSettings
  ClipboardsAgree
PROPERTY EchoesDieOut
