SPECIFICATION Spec
CONSTANTS
  Journals = {1, 2}
  MaxLines = 2
INVARIANT NeverOldPosition
CHECK_DEADLOCK FALSE
