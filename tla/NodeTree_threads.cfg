\* Three threads adding names to one directory at once.
SPECIFICATION Spec
CONSTANTS
  Threads = {t1, t2, t3}
  Names = {a, b, c}
  Hooks = {"read_dir"}
  MaxNodes = 4
  MaxDepth = 1
  MaxFiles = 2
SYMMETRY Symmetry
INVARIANTS
  SiblingNamesUnique
