SPECIFICATION SessionSpec
CONSTANTS
  Missing = Missing
  Flights <- SessionFlights
  MaxInFlight = 2
  Scripts <- SessionScripts
  Ships = {"sidewinder", "eagle"}
  Omissions <- SessionOmissions
  MaxFits = 2
  MaxLines = 3
  Systems = {"s1", "s2"}
  Port = "Port"
  Carrier = "Carrier"
  PortSystem = "s1"
  MaxTravel = 4
  Missions = {"m1", "m2"}
  Destinations = {"d1", "d2"}
  Powers = {"p1", "p2"}
  Ranks = 3
  HistoryLimit = 2
  MaxRecordLines <- SessionRecordLines
  MaxRereads = 1
INVARIANT EncounterDeduplicated
CHECK_DEADLOCK FALSE
