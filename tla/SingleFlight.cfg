CONSTANTS
  Caller = {c1, c2, c3}
  Key = {k1, k2}
  Outcome = {found, failed}
SPECIFICATION FlightSpec
INVARIANTS
  AnswerForOwnKey
  NoForgottenFollower
PROPERTIES
  FollowerEndsUnlessAbandoned
