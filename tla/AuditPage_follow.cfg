SPECIFICATION Spec
CONSTANTS
  Readers = {a1}
  Lengths = {1, 2}
  Limits = {1, 2}
  MaxLines = 4
  MaxAnchors = 2
INVARIANTS
  TypeOK
  RecordsInOrder
  AnchorsComplete
  PagesAnswered
CHECK_DEADLOCK FALSE
