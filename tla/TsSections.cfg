\* Packets of five cells: sections of less, of one, and of two packets.
CONSTANTS
  old1 = old1
  old2 = old2
  new1 = new1
  next2 = next2
  short = short
  Sections = {old1, old2, new1, next2, short}
  fields <- MCFields
  Payload = 5
  ShortHeader = 1
  LongHeader = 2
  CcModulus = 3
  Stuffing = Stuffing
  None = None
  MaxFaults = 1
SPECIFICATION Spec
INVARIANTS
  TypeOK
  Intact
  NothingLost
PROPERTY
  Fresh
