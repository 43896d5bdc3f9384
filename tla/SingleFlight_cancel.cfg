CONSTANTS
  Caller = {c1, c2}
  Key = {k1}
  Outcome = {found}
SPECIFICATION FlightSpec
PROPERTIES
  FollowerEnds
