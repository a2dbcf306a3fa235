SPECIFICATION SvcSpec
CONSTANTS
  Handlers <- MCHandlers
  Main = main
  SeedName = seed
  SeedBody = b1
  EmptyName = empty
  Requests <- SeedRequests
  MaxStops = 2
  Callers <- MCCallers
  Names <- MCNames
  BlankNames <- MCBlankNames
  IllegalNames <- MCIllegalNames
  Bodies <- MCBodies
  InvalidBodies <- MCInvalidBodies
  Calls <- MCCalls
  Faults = {"write", "rename", "read", "power", "bind"}
  Absent = Absent
  Partial = Partial
  Garbage = Garbage
  Nobody = Nobody
  h1 = h1
  h2 = h2
  main = main
  seed = seed
  n1 = n1
  blank = blank
  empty = empty
  b1 = b1
  b2 = b2
  bad = bad
INVARIANTS
  SvcTypeOK
  SvcInv
  SeededWhileServing
  AckedIsRegistered
PROPERTIES
  SeedNeverOverwrites
  StopsAfterSignal
  HandlersAnswer
