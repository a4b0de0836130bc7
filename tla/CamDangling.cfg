\* One response that cannot be written.
CONSTANTS
  Connections = {c1}
  MaxSessionIds = 2
  MaxFaults = 1
SPECIFICATION Spec
PROPERTIES
  AlwaysKeepsPromises
