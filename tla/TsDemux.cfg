\* Two streams of two or three PES packets, two lost or repeated packets, two flushes or updates.
CONSTANTS
  video = video
  audio = audio
  StreamList <- MCStreamList
  Plans <- MCPlans
  Headers <- MCHeaders
  Lengths <- MCLengths
  Pcrs = {2}
  MaxCC = 3
  MaxFaults = 2
  MaxBreaks = 2
SPECIFICATION Spec
INVARIANTS
  Intact
  Delivered
  Stamped
  OneSegment
  HeadersJudged
CHECK_DEADLOCK FALSE
