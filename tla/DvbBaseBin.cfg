\* Two programs, two PATs, two PMTs; four sections, one lost CA PMT, two starts.
CONSTANTS
  p1 = p1
  p2 = p2
  video = video
  audio = audio
  table1 = table1
  table2 = table2
  NoPid = NoPid
  Programs <- MCPrograms
  Pids <- MCPids
  InitialPids <- MCInitialPids
  Pats <- MCPats
  Pmts <- MCPmts
  MaxSections = 4
  MaxFaults = 1
  MaxRestarts = 2
SPECIFICATION Spec
INVARIANTS
  TypeOK
  CountsCover
  NeedsFiltered
  CamFollowsList
  ListMatchesPrograms
