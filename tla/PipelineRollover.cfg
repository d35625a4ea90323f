SPECIFICATION Spec
CONSTANTS
  Journals = {1, 2}
  MaxLines = 1
  DbMayFail = FALSE
INVARIANT OlderNeverOverwrites
CHECK_DEADLOCK FALSE
