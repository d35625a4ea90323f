SPECIFICATION FairSpec
CONSTANTS
  Missing = Missing
  Flights <- LiveFlights
  MaxInFlight = 2
PROPERTIES FuelSettles ShieldSettles
CHECK_DEADLOCK FALSE
