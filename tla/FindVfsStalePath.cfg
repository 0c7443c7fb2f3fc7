SPECIFICATION Spec
CONSTANTS
  Names = {"a", "b"}
  Paths <- FlatPaths
  MaxNodes = 3
  Conns = {c1, c2}
  Backends = {"vfs"}
  MaxOpenFiles = 1
  MaxFids = 1
  Dispositions = {"open", "create", "openIf", "overwriteIf"}
  Accesses = {"read", "write"}
  Options <- PlainOrDelete
SYMMETRY Symmetry
INVARIANT LiveStat
