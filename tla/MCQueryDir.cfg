SPECIFICATION Spec
CONSTANTS
  NameOrder <- MCNameOrder
  Patterns <- MCPatterns
  Lower <- MCLower
  Classes = {"names", "idBoth"}
  Lengths = {40, 300}
  MaxOutput = 224
  MaxChanges = 1
INVARIANTS TypeOK ListedOnce NothingSkipped ResponseFits
