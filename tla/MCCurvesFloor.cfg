SPECIFICATION CurvesSpec
CHECK_DEADLOCK FALSE
CONSTANTS
  Prec = 20
  MaxExp = 8
  Floor = 10000
  FullTurn = 720
  Tolerance = 2
  MinPoints = 2
  MaxPoints = 37
  Configs <- MCConfigs
  PointCounts = {13}
  Angles = {0, 120, 240, 360}
  LiftPoints = {}
  Speed = 1440
  Stroke = 10
  LawNames = {"cycloid"}
INVARIANTS
  DwellSmoothness
