SPECIFICATION Spec
CONSTANTS
  Callers <- MCCallers
  c1 = c1
  c2 = c2
  Names <- MCNames
  BlankNames <- MCBlankNames
  IllegalNames <- MCIllegalNames
  Bodies <- MCBodies
  InvalidBodies <- MCInvalidBodies
  Calls <- MCListCalls
  Faults = {"write", "rename", "pattern", "power"}
  Absent = Absent
  Partial = Partial
  Garbage = Garbage
  Nobody = Nobody
  n1 = n1
  n2 = n2
  blank = blank
  illegal = illegal
  b1 = b1
  b2 = b2
  bad = bad
INVARIANTS
  ListComplete
PROPERTIES
  ImplementsRegistry
  CallsReturn
