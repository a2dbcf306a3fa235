SPECIFICATION CurvesSpec
CHECK_DEADLOCK FALSE
CONSTANTS
  Prec = 20
  MaxExp = 8
  Floor = 10000
  FullTurn = 720
  Tolerance = 2
  MinPoints = 2
  MaxPoints = 37
  Configs <- MCConfigs
  PointCounts = {1, 2, 13, 37, 38}
  Angles = {0, 120, 240, 360, 480, 720}
  LiftPoints = {1, 3, 13, 38}
  Speed = 360
  Stroke = 2
  LawNames = {"cosine", "cycloid", "parabolic"}
INVARIANTS
  TypeOK
  NoDisplacementJump
  CurveIsProfile
  BoundaryOwner
  SwitchReported
  DwellSmoothness
  JumpsReported
  CurveCloses
  DerivativesAgree
  PeaksAreMaxima
  RiseIsLift
