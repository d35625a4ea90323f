SPECIFICATION Spec
CONSTANTS
  live = live
  plain = plain
  v1 = v1
  Missing = none
  none = none
  Fields <- MCFields
  LiveFields <- MCLive
  Values <- MCValues
INVARIANTS TypeOK BestReportShown
PROPERTIES LiveFieldsKept ImplementsRegisters
