SPECIFICATION Spec
CONSTANTS
  Names = {"a", "b"}
  Paths <- FlatPaths
  MaxNodes = 2
  Conns = {c1, c2}
  Backends = {"local", "vfs"}
  MaxOpenFiles = 1
  MaxFids = 2
  Dispositions = {"open", "create", "overwriteIf"}
  Accesses = {"read", "write", "append"}
  Options <- DirOptions
SYMMETRY Symmetry
INVARIANTS TypeOK ReadOnlyDataKept ExclusiveCreate
PROPERTY ReadOnlyShareKept
