SPECIFICATION Spec
CONSTANTS
  Missing = Missing
  Flights <- HullFlights
  MaxInFlight = 2
PROPERTY HullCrossingAnnounced
CHECK_DEADLOCK FALSE
