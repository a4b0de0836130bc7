\* Three files of eight PCRs and 360 of four; a second is ten ticks.
CONSTANTS
  Files <- MCFiles
  PcrMax = 1000
  Second = 10
  Tenth = 1
  Half = 5
  Needed = 3
  Enough = 2
  Trailer = 8
  Chunk = 6
  Chunks = 2
  Times = {0, 5, 12, 20}
  Shifts = {0, 14}
  Huge = 1000000
SPECIFICATION Spec
INVARIANTS
  InOrder
  LandsInside
  DurationCovers
  TimesForward
CHECK_DEADLOCK FALSE
