SPECIFICATION Spec
CONSTANTS
  Names = {"a", "b"}
  Paths <- FlatPaths
  MaxNodes = 3
  Conns = {c1, c2}
  Backends = {"local"}
  MaxOpenFiles = 1
  MaxFids = 2
  Dispositions = {"open", "create", "openIf", "overwriteIf"}
  Accesses = {"read", "write", "append"}
  Options <- PlainOrDelete
SYMMETRY Symmetry
INVARIANT RenameKeepsTarget
