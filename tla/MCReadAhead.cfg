SPECIFICATION Spec
CONSTANTS
  Conns = {c1, c2}
  Window = 3
  Caps = {2, 3}
  MaxRead = 3
  MaxSize = 3
  Reads <- SomeReads
  Updates <- SomeUpdates
  MaxChanges = 2
  MaxLost = 1
SYMMETRY Symmetry
INVARIANTS TypeOK  WindowsCurrent
