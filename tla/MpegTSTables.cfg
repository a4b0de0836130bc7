\* Two programs and three changes of their tables.
CONSTANTS
  p1 = p1
  p2 = p2
  s1 = s1
  s2 = s2
  s3 = s3
  zero = zero
  table1 = table1
  table2 = table2
  table3 = table3
  a = a
  b = b
  video = video
  audio = audio
  Null = Null
  AnyProgram = AnyProgram
  NoPid = NoPid
  PcrOnly = PcrOnly
  NoStream = NoStream
  Pat = Pat
  Unseen = Unseen
  Programs = {p1, p2}
  Slots = {s1, s2, s3}
  Pids <- MCPids
  DefaultPsi = {zero}
  PatPid = zero
  PmtPids = {table1, table2, table3}
  Types = {video, audio}
  PrivateTypes = {}
  ParsePrivate = TRUE
  Pats <- MCPats
  Pmts <- MCPmts
  MgtPids = {}
  Requests = {AnyProgram}
  MaxChanges = 2
SPECIFICATION MCSpec
INVARIANTS
  SeenIsApplied
  PmtsHeard
PROPERTY
  TablesApplied
CHECK_DEADLOCK FALSE
