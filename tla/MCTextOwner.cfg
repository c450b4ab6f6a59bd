SPECIFICATION MCSpec
CONSTANTS
  Parts = {"scan"}
  ULLONG_MAX = 255
CHECK_DEADLOCK FALSE
INVARIANT
  GivenStaysLive
