\* Two connections, three session numbers, two failing writes.
CONSTANTS
  Connections = {c1, c2}
  MaxSessionIds = 3
  MaxFaults = 2
SPECIFICATION Spec
INVARIANTS
  TypeOK
  ListsMatchTable
  DanglingCounted
PROPERTIES
  KeepsPromises
