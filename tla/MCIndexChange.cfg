SPECIFICATION Spec
CONSTANTS
  NULL = NULL
  Times <- MCTimes
  Values <- MCValues
  Intervals <- MCIntervals
  Series <- MCSeries
  MaxInt8 = 1000
INVARIANTS TypeOK ChangesAreRight
CHECK_DEADLOCK FALSE
