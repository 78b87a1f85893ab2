SPECIFICATION Spec
CONSTANTS
  Key = {1, 2}
  Value = {1, 2}
  MaxLen = 3
INVARIANTS SortedByKeyAndValue
