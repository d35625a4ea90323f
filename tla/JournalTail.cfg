SPECIFICATION Spec
CONSTANTS
  Journals = {1, 2}
  MaxLines = 2
INVARIANTS
  TypeOK
  AtMostOnce
  NoLineSkipped
  CursorOfTarget
PROPERTIES
  InOrder
  NeverRollBack
  QuietAfterStop
CHECK_DEADLOCK FALSE
