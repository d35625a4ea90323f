\* Two instances may run at once, one after the other, or again after a crash.  Three
\* events, two of them alike, and a ring that forgets the first.
CONSTANTS
  Apps = {a1, a2}
  Cores = {k1, k2}
  Paged = {a1}
  None = None
  Clients = {c1, c2}  c1 = c1
  MaxEvents = 3
  RingCapacity = 2
  Entry <- EntryOf
  Unread = Unread
SPECIFICATION DesktopSpec
INVARIANTS CoresOwned NothingMissed
PROPERTIES PageConnects ClientsServed
CHECK_DEADLOCK FALSE
