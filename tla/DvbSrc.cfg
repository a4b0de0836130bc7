\* Two callers, two filters of which each may leave one behind, one fault.
CONSTANTS
  Callers = {c1, c2}
  Changer = c1
  Handles = {1, 2, 3}
  MaxFilters = 2
  Always <- MCAlways
  Requests <- MCRequests
  Adapters <- MCAdapters
  Channels <- MCChannels
  ReadSize = 2
  Source = Source
  None = None
  Undefined = Undefined
  MaxFaults = 1
SPECIFICATION FairSpec
INVARIANTS
  NothingLeft
  Requested
PROPERTIES
  GuessFits
  Returns
CHECK_DEADLOCK FALSE
