CONSTANTS
  c1 = c1  c2 = c2  c3 = c3
  o1 = o1  o2 = o2
  Old = {o1, o2}
  Calls <- AllCalls
  Further <- FurtherKeys
  Earlier <- AllEarlier
  Absent = Absent
  Kinds = {"blueprint", "suit"}
  Facts = {"f1"}
  Outputs <- SomeOutputs
  MaxStops = 2
  Tags = {"bgs"}
  RouteFiles <- SomeFiles
SPECIFICATION Spec
SYMMETRY Alike
INVARIANTS RecordsTyped LogMatchesRows ConfirmedOnly
PROPERTIES ArchivedKept
CHECK_DEADLOCK FALSE
