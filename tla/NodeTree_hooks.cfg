\* One thread, every hook, on trees two deep.
SPECIFICATION Spec
CONSTANTS
  Threads = {t1}
  Names = {a, b}
  Hooks = {"lookup", "create", "create_dir", "read_dir", "remove_dir", "unlink", "rename"}
  MaxNodes = 3
  MaxDepth = 2
  MaxFiles = 3
SYMMETRY Symmetry
INVARIANTS
  TypeOK
  TreeIsAlive
  VnodesResolve
PROPERTY NameMeansItsFile
