\* Two programs, four cells, three PATs and three PMTs.
CONSTANTS
  p1 = p1
  p2 = p2
  s1 = s1
  s2 = s2
  s3 = s3
  s4 = s4
  zero = zero
  table1 = table1
  table2 = table2
  a = a
  b = b
  c = c
  video = video
  audio = audio
  sections = sections
  Null = Null
  AnyProgram = AnyProgram
  NoPid = NoPid
  PcrOnly = PcrOnly
  NoStream = NoStream
  Programs = {p1, p2}
  Slots = {s1, s2, s3, s4}
  Pids <- MCPids
  DefaultPsi = {zero}
  PmtPids = {table1, table2}
  Types = {video, audio, sections}
  PrivateTypes = {sections}
  ParsePrivate = TRUE
  Pats <- MCPats
  Pmts <- MCPmts
  MgtPids = {table2}
  Requests = {p1, AnyProgram}
SYMMETRY Symmetry
SPECIFICATION Spec
INVARIANTS
  TypeOK
  Counted
  Owned
  DeliveredUnaware
  NoStalePes
PROPERTY
  Seamless
